---- MODULE Spec2Model ----
(***************************************************************************)
(* Request / retry / pagination engine of the bubble-api client library.   *)
(*                                                                         *)
(*   BubbleClient.make_request   src/bubble_api/client.py   (recursive     *)
(*   BubbleWrapper.make_request  src/bubble_api/wrapper.py   retry)        *)
(*   BubbleClient.get_objects_gen / get_objects             (pagination)   *)
(*   Bubble.make_request / make_full_request  src/src/bubble_api/bubble.py *)
(*                                                                         *)
(* Time is counted in units of the caller's choosing: sleep_time is an     *)
(* integer number of units (doubling a float is exact, so the integer      *)
(* arithmetic is the code's arithmetic).                                   *)
(***************************************************************************)
EXTENDS Integers, Sequences, FiniteSets, TLC

VARIABLES
    op,                   \* the operation the caller invoked
    mr_pc,                \* position inside BubbleClient.make_request
    nb_retries,           \* argument nb_retries of the innermost frame
    sleep_time,           \* argument sleep_time of the innermost frame
    exponential_backoff,  \* argument exponential_backoff
    call,                 \* the arguments of the outermost make_request call
    response,             \* the response object of the innermost frame
    error,                \* the exception leaving make_request ("none" if none)
    trace,                \* every HTTP request issued and every sleep performed, in order
    mr_calls,             \* number of make_request calls the operation has made
    n_records,            \* backend: number of records matching the query
    page_cap,             \* backend: the most records it puts in one page
    kwargs,               \* the retry arguments the operation passes to every make_request
    limit,                \* params["limit"] of the list query
    params_cursor,        \* params["cursor"] of the list query
    max_objects,          \* get_objects(max_objects): <<>> for None, <<N>> for N
    op_pc,                \* "running", or how the operation ended
    gen_pc,               \* position of the generator get_objects_gen
    json_resp,            \* json_resp of get_objects_gen: the last page received
    buffer,               \* records of json_resp["results"] not yet yielded
    out,                  \* records delivered to the consumer, in order
    b_pc,                 \* position inside Bubble.make_request
    b_args,               \* arguments cursor, limit, unique_id of Bubble.make_request
    n_retries,            \* Bubble.make_request: n_retries
    base_wait_time,       \* Bubble.make_request: base_wait_time
    retry_index,          \* Bubble.make_request: retry_index
    break_while,          \* Bubble.make_request: break_while
    resp,                 \* Bubble.make_request: resp (NoResponse for None)
    no_resp_error,        \* Bubble.make_request: no_resp_error
    pending,              \* a return or an exception passing through the finally clause
    get_data_resp,        \* the GetDataResp that Bubble.make_request returns
    detail,               \* what the ValueError raised after the loop reports
    cursor,               \* make_full_request: cursor
    remaining,            \* make_full_request: remaining
    full_results,         \* make_full_request: full_results
    table,                \* backend: the records matching the query, in query order
    request,              \* the HTTP request make_request is sending: method and record id
    ids,                  \* delete_by_ids: the argument ids
    d_args,               \* BubbleClient.delete: the arguments bubble_id and constraints
    del_pc,               \* position inside delete / delete_by_id / delete_by_ids
    variant,              \* the class the operation belongs to: "client" or "wrapper"
    api_token,            \* whether self.api_token is set (not None)
    fields,               \* create_bulk: the argument fields
    result,               \* the value the operation returned (<<>> while there is none)
    n_threads,            \* make_full_request: n_threads
    n_items,              \* make_full_request: n_items
    cur_b,                \* make_full_request: b, the batch of the for loop
    cur_t,                \* make_full_request: t, of the loop that starts or collects
    full_pc,              \* position of the main thread in the threaded branch
    threads,              \* the worker threads, by slot index: state and make_request frame
    result_dict,          \* make_full_request: result_dict of the current batch
    column_name,          \* get_by_id: whether column_name is given (not None)
    fail_if_not_found,    \* get_object_by_id: fail_if_not_found
    bubble_id,            \* get_by_id / get_object_by_id: the id (or column value) looked up
    by_pc,                \* position inside get_by_id / get_object_by_id
    c_args,               \* Constraint(key, constraint_type, value): the arguments
    c_self,               \* the Constraint object (<<>> before __init__)
    res,                  \* Constraint.to_dict(): the dict returned (<<>> before the call)
    tasks,                \* the operations of the async client scheduled on the event loop
    running,              \* the task the event loop is running (0: none)
    max_failures,         \* how many requests of the operation the transport may fail
    f_call,               \* the expression on a Field: field name, method or operator, operand
    f_self                \* the Field object: <<field_name>> (<<>> before __init__)

mrVars == <<mr_pc, nb_retries, sleep_time, exponential_backoff, call, response, error,
            request>>
backendVars == <<n_records, page_cap, table>>
pageVars == <<kwargs, limit, params_cursor, max_objects, op_pc, gen_pc, json_resp,
              buffer, out>>
\* the frame of Bubble.make_request
bmrVars == <<b_pc, b_args, n_retries, base_wait_time, retry_index, break_while, resp,
             no_resp_error, pending, get_data_resp, detail>>
\* the locals of Bubble.make_full_request
fullVars == <<cursor, remaining, full_results>>
bubbleVars == <<bmrVars, fullVars>>
\* the arguments and positions of delete, count_objects and create_bulk
opsVars == <<ids, d_args, del_pc, variant, api_token, fields, result>>
\* the threaded branch of Bubble.make_full_request
thrVars == <<n_threads, n_items, cur_b, cur_t, full_pc, threads, result_dict>>
\* the arguments of the lookups by id
\* a Constraint and its to_dict
conVars == <<c_args, c_self, res, f_call, f_self>>
\* the event loop of the async client
loopVars == <<tasks, running>>
extVars == <<column_name, fail_if_not_found, bubble_id, by_pc, conVars, loopVars,
             max_failures>>
vars == <<op, mr_pc, nb_retries, sleep_time, exponential_backoff, call, response,
          error, trace, mr_calls, n_records, page_cap, kwargs, limit, params_cursor, max_objects,
          op_pc, gen_pc, json_resp, buffer, out, b_pc, b_args, n_retries,
          base_wait_time, retry_index, break_while, resp, no_resp_error, pending,
          get_data_resp, detail, cursor, remaining, full_results, table, request, ids,
          d_args, del_pc, variant, api_token, fields, result, n_threads, n_items, cur_b, cur_t, full_pc,
          threads, result_dict, column_name, fail_if_not_found, bubble_id, by_pc,
          c_args, c_self, res, tasks, running, max_failures, f_call, f_self>>

----------------------------------------------------------------------------
(* Bounds of the model *)

\* largest nb_retries a caller passes
MaxRetries == 3
\* largest sleep_time (in units) a caller passes
MaxSleep == 2
\* HTTP requests after which the model stops following one make_request call
\* (the recursion of make_request has no bound of its own below the
\* interpreter's recursion limit)
MaxCalls == 6
\* largest number of records the backend holds for a query
MaxRecords == 5
\* largest limit a caller passes, and largest page the backend serves
MaxLimit == 3
\* largest max_objects a caller passes
MaxObjects == 4
\* largest nb_retries a caller passes to a paginated operation
MaxPageRetries == 1
\* most requests of one paginated operation that the transport lets fail
MaxPageFailures == 1
\* longest list of ids a caller passes to delete, and largest id in it
MaxIds == 3
\* longest list of records a caller passes to create_bulk
MaxBulk == 3
\* largest n_threads a caller passes
MaxThreads == 2

----------------------------------------------------------------------------
(* The HTTP transport (requests.request): an external collaborator *)

\* status codes the backend may answer with: two 2xx, a 3xx, a 4xx and a 5xx
Statuses == {200, 204, 304, 404, 500}
\* what a response body may report; make_request never reads it
Bodies == {"ok", "partial_failure"}
\* requests.request raises instead of returning a response
NetErrors == {"ConnectionError", "Timeout"}

Min(a, b) == IF a <= b THEN a ELSE b
Max(a, b) == IF a >= b THEN a ELSE b

\* the records 1..k, in order
FirstRecords(k) == [i \in 1..k |-> i]

\* the "response" object of a list fetch: {results, cursor, count, remaining}
NoJson == [cursor |-> 0, count |-> 0, remaining |-> 0, results |-> <<>>]

\* The backend's answer to a list query (cursor c, limit l) over the records
\* that match now (table, in query order; n_records of them, numbered
\* 1..n_records, when the operation starts): the records after the first c,
\* at most l and at most page_cap of them.
BackendPage(c, l) ==
    LET count == Min(Min(l, page_cap), Max(Len(table) - c, 0))
    IN  [cursor |-> c,
         count |-> count,
         remaining |-> Max(Len(table) - c - count, 0),
         results |-> [i \in 1..count |-> table[c + i]]]

NoResponse == [status |-> 0, body |-> "none", json |-> NoJson, text |-> <<>>]
\* responses to a request that is no list query
Responses == [status : Statuses, body : Bodies, json : {NoJson}, text : {<<>>}]
\* responses to the list query (cursor c, limit l): a 200 carries the page
PageResponses(c, l) ==
    {[status |-> st, body |-> "ok",
      json |-> IF st = 200 THEN BackendPage(c, l) ELSE NoJson,
      text |-> <<>>] : st \in Statuses \ {204}}

\* the request make_request sends when the caller names no method
NoRequest == [method |-> "GET", id |-> 0, data |-> <<>>, headers |-> <<>>]

Range(f) == {f[i] : i \in DOMAIN f}
Remove(q, x) == SelectSeq(q, LAMBDA y : y # x)

\* responses to DELETE /obj/{type}/{id}: 204 if the record exists (and is then
\* deleted), 404 if it does not, or a 500
DeleteResponses(id) ==
    {[status |-> st, body |-> "ok", json |-> NoJson, text |-> <<>>] :
        st \in IF id \in Range(table) THEN {204, 500} ELSE {404, 500}}

\* A text is a sequence of characters; the model tells three of them apart:
\* the newline, a whole JSON document v written on one line (json.dumps puts
\* no newline in its output), and text that is no JSON document.
Newline == [kind |-> "nl", v |-> 0]
JsonDoc(v) == [kind |-> "json", v |-> v]
Junk == [kind |-> "junk", v |-> 0]

\* json.dumps(v)
JsonDumps(v) == <<JsonDoc(v)>>

\* "\n".join(lines)
RECURSIVE Join(_)
Join(lines) ==
    IF lines = <<>> THEN <<>>
    ELSE IF Len(lines) = 1 THEN lines[1]
    ELSE lines[1] \o <<Newline>> \o Join(Tail(lines))

\* text.split("\n"): the pieces between the newlines, one more than there are
\* newlines (so one empty piece for the empty text)
RECURSIVE Split(_)
Split(text) ==
    IF \A i \in 1..Len(text) : text[i] # Newline THEN <<text>>
    ELSE LET k == CHOOSE i \in 1..Len(text) :
                      text[i] = Newline /\ \A j \in 1..(i - 1) : text[j] # Newline
         IN  <<SubSeq(text, 1, k - 1)>> \o Split(SubSeq(text, k + 1, Len(text)))

\* whether json.loads(piece) returns (it raises JSONDecodeError otherwise)
JsonLoadable(piece) == Len(piece) = 1 /\ piece[1].kind = "json"
\* json.loads(piece) for a piece it accepts
JsonLoads(piece) == piece[1].v

\* What the bulk endpoint answers with a 200 to the body data: it reads one
\* record per non-empty line and writes one status line per record, in the
\* order of the lines (the status of a record is told by the record); it may
\* end the text with a newline, and it may write a line that is no JSON.
BulkTexts(data) ==
    LET recs == SelectSeq(Split(data), JsonLoadable)
        lines == [i \in 1..Len(recs) |-> JsonDumps(JsonLoads(recs[i]))]
    IN  {Join(lines), Join(lines) \o <<Newline>>}
        \cup {Join([lines EXCEPT ![k] = <<Junk>>]) : k \in 1..Len(lines)}

\* responses to POST /obj/{type}/bulk
BulkResponses(data) ==
    {[status |-> 200, body |-> "ok", json |-> NoJson, text |-> x] : x \in BulkTexts(data)}
    \cup {[status |-> st, body |-> "ok", json |-> NoJson, text |-> <<>>] : st \in {400, 500}}

IsListQuery ==
    /\ op \in {"get_objects", "make_full_request", "delete_objects", "count_objects"}
    /\ request.method = "GET"

\* responses to GET /obj/{type}/{id}: 200 with the record if it exists, 404 if
\* it does not (it never did, or it was deleted), or a 500
GetResponses(id) ==
    {[status |-> st, body |-> "ok", json |-> NoJson, text |-> <<>>] :
        st \in IF id \in Range(table) THEN {200, 500} ELSE {404, 500}}

\* the responses the transport may give to the request make_request sends now
Transport ==
    IF request.method = "DELETE" THEN DeleteResponses(request.id)
    ELSE IF request.method = "POST" THEN BulkResponses(request.data)
    ELSE IF IsListQuery THEN PageResponses(params_cursor, limit)
    ELSE IF request.id # 0 THEN GetResponses(request.id)
    ELSE Responses

\* Status codes answered to Bubble.make_request, which tells 400, 401 and 404
\* from the other statuses (403 stands for the 4xx it does not name)
BubbleStatuses == {200, 304, 400, 401, 403, 404, 500}
\* What resp.json() gives: a JSON object holding the key the code looks up
\* ("response" or "id" after a success, "body" after 400/404, "translation"
\* after 401), a JSON object without it, a JSON array, or no JSON at all; the
\* body of a 403 or a 500 is never parsed
BodyShapes(st) ==
    IF st \in {403, 500} THEN {"not_json"}
    ELSE {"keyed", "unkeyed", "not_json", "array"}

\* the HTTP method of the requests of Bubble: requests.get in make_request,
\* requests.patch in update_object, requests.post in create_object
BubbleMethod ==
    IF op = "update_object" THEN "PATCH"
    ELSE IF op = "create_object" THEN "POST"
    ELSE "GET"

\* responses to the request of Bubble.make_request with arguments a (or of
\* update_object / create_object)
BubbleResponses(a) ==
    {[status |-> st, body |-> sh,
      json |-> IF st \div 100 = 2 /\ sh = "keyed" /\ a.unique_id = <<>>
                  /\ BubbleMethod = "GET"
               THEN BackendPage(a.cursor, a.limit) ELSE NoJson,
      text |-> <<>>] :
        st \in BubbleStatuses, sh \in {"keyed", "unkeyed", "not_json", "array"}}

\* a 2xx response whose body is what the backend documents
WellFormed2xx(r) == r.status \div 100 = 2 /\ r.body \in {"unread", "keyed"}

\* _get_headers(): the Authorization header if an api_token is set, else None
\* (<<>> stands for None, <<names>> for a dict with these header names)
GetHeaders == IF api_token THEN <<{"Authorization"}>> ELSE <<>>

\* if kwargs.get("headers") is None: kwargs["headers"] = self._get_headers();
\* the names of the headers the request then carries (none for headers = None)
SentHeaders ==
    LET h == IF request.headers = <<>> THEN GetHeaders ELSE request.headers
    IN  IF h = <<>> THEN {} ELSE h[1]

\* The record of one HTTP request: its outcome, the status and the page
\* counters of the response, and the body shape sh where the caller reads the
\* body ("unread" where it does not).
\* For a request of BubbleClient.make_request the record also tells the
\* method, the id in the URL and which make_request call of the operation
\* sent it.
RequestEvent(outcome, r, sh, c) ==
    [ev |-> "request", outcome |-> outcome, status |-> r.status, body |-> sh,
     t |-> 0, cursor |-> c, count |-> r.json.count, remaining |-> r.json.remaining,
     method |-> IF b_pc = "idle" THEN request.method ELSE BubbleMethod,
     id |-> request.id, call_no |-> mr_calls, headers |-> SentHeaders]
SleepEvent(s) ==
    [ev |-> "sleep", outcome |-> "none", status |-> 0, body |-> "none", t |-> s,
     cursor |-> 0, count |-> 0, remaining |-> 0,
     method |-> "none", id |-> 0, call_no |-> mr_calls, headers |-> {}]

\* response.raise_for_status(): raises HTTPError for 4xx and 5xx only
RaisesForStatus(status) == 400 <= status /\ status < 600

RECURSIVE CountEv(_, _)
CountEv(s, ev) ==
    IF s = <<>> THEN 0
    ELSE (IF Head(s).ev = ev THEN 1 ELSE 0) + CountEv(Tail(s), ev)

NumRequests == CountEv(trace, "request")
NumSleeps == CountEv(trace, "sleep")

\* requests that got no well-formed 2xx response
NumFailures ==
    Cardinality({i \in 1..Len(trace) :
                    trace[i].ev = "request" /\ ~WellFormed2xx(trace[i])})

\* whether the transport may fail the next request (always, for a single
\* make_request; up to max_failures times in an operation made of several)
MayFail ==
    op \notin {"make_request", "get_by_id", "Bubble.make_request", "update_object",
              "create_object", "get_object_by_id"}
        => NumFailures < max_failures

----------------------------------------------------------------------------
(* BubbleClient.make_request / BubbleWrapper.make_request *)

\* the caller enters make_request(method = rq.method, url = .../rq.id,
\* data = rq.data, nb_retries = n, sleep_time = s, exponential_backoff = e)
EnterRequest(rq, n, s, e) ==
    /\ mr_pc' = "request"
    /\ request' = rq
    /\ nb_retries' = n
    /\ sleep_time' = s
    /\ exponential_backoff' = e
    /\ call' = [nb_retries |-> n, sleep_time |-> s, exponential_backoff |-> e]
    /\ response' = NoResponse
    /\ error' = "none"
    /\ mr_calls' = mr_calls + 1

\* mutant: the retry budget and the wait are shared by the calls of an
\* operation: a later call goes on with what the one before it left
EnterMakeRequest_SharedState(n, s, e) ==
    /\ mr_pc' = "request"
    /\ request' = NoRequest
    /\ nb_retries' = IF mr_calls = 0 THEN n ELSE nb_retries
    /\ sleep_time' = IF mr_calls = 0 THEN s ELSE sleep_time
    /\ exponential_backoff' = e
    /\ call' = [nb_retries |-> IF mr_calls = 0 THEN n ELSE nb_retries,
                sleep_time |-> IF mr_calls = 0 THEN s ELSE sleep_time,
                exponential_backoff |-> e]
    /\ response' = NoResponse
    /\ error' = "none"
    /\ mr_calls' = mr_calls + 1

\* the caller enters make_request(nb_retries = n, sleep_time = s, exponential_backoff = e)
EnterMakeRequest(n, s, e) ==
    /\ mr_pc' = "request"
    /\ request' = NoRequest
    /\ nb_retries' = n
    /\ sleep_time' = s
    /\ exponential_backoff' = e
    /\ call' = [nb_retries |-> n, sleep_time |-> s, exponential_backoff |-> e]
    /\ response' = NoResponse
    /\ error' = "none"
    /\ mr_calls' = mr_calls + 1

\* response = requests.request(**kwargs): the transport answers or raises;
\* an exception of the transport is not caught and leaves make_request
MakeRequestSend ==
    /\ mr_pc = "request"
    /\ call.nb_retries - nb_retries < MaxCalls
    /\ \/ \E r \in Transport :
            /\ r.status \div 100 = 2 \/ MayFail
            /\ response' = r
            /\ trace' = Append(trace, RequestEvent("response", r, "unread", params_cursor))
            /\ mr_pc' = "classify"
            /\ error' = error
            /\ table' = IF request.method = "DELETE" /\ r.status \div 100 = 2
                         THEN Remove(table, request.id) ELSE table
       \/ \E x \in NetErrors :
            /\ MayFail
            /\ response' = NoResponse
            /\ trace' = Append(trace, RequestEvent(x, NoResponse, "none", params_cursor))
            /\ mr_pc' = "raised"
            /\ error' = x
            \* a request that timed out may have been carried out all the same
            /\ \E done \in IF request.method = "DELETE" /\ x = "Timeout"
                             THEN BOOLEAN ELSE {FALSE} :
                   table' = IF done THEN Remove(table, request.id) ELSE table
    /\ UNCHANGED <<opsVars, thrVars>>
    /\ UNCHANGED <<op, request, nb_retries, sleep_time, exponential_backoff, call, mr_calls>>
    /\ UNCHANGED <<n_records, page_cap, pageVars, bubbleVars>>
    /\ UNCHANGED extVars

\* mutant: only a 200 counts as success
MakeRequestClassify_Only200 ==
    /\ mr_pc = "classify"
    /\ IF response.status = 200
       THEN /\ mr_pc' = "returned"
            /\ error' = error
       ELSE IF (nb_retries = 0 \/ response.status \div 100 = 4)
                 /\ RaisesForStatus(response.status)
            THEN /\ mr_pc' = "raised"
                 /\ error' = "HTTPError"
            ELSE /\ mr_pc' = "sleep"
                 /\ error' = error
    /\ UNCHANGED <<opsVars, thrVars>>
    /\ UNCHANGED <<op, request, nb_retries, sleep_time, exponential_backoff, call, response, trace,
                   mr_calls>>
    /\ UNCHANGED <<backendVars, pageVars, bubbleVars>>
    /\ UNCHANGED extVars

\* mutant: a 4xx is retried like a 5xx while retries are left
MakeRequestClassify_Retry4xx ==
    /\ mr_pc = "classify"
    /\ IF response.status \div 100 = 2
       THEN /\ mr_pc' = "returned"
            /\ error' = error
       ELSE IF nb_retries = 0 /\ RaisesForStatus(response.status)
            THEN /\ mr_pc' = "raised"
                 /\ error' = "HTTPError"
            ELSE /\ mr_pc' = "sleep"
                 /\ error' = error
    /\ UNCHANGED <<opsVars, thrVars>>
    /\ UNCHANGED <<op, request, nb_retries, sleep_time, exponential_backoff, call, response, trace,
                   mr_calls>>
    /\ UNCHANGED <<backendVars, pageVars, bubbleVars>>
    /\ UNCHANGED extVars

\* the two if statements after the request
MakeRequestClassify ==
    /\ mr_pc = "classify"
    /\ IF response.status \div 100 = 2
       THEN /\ mr_pc' = "returned"
            /\ error' = error
       ELSE IF (nb_retries = 0 \/ response.status \div 100 = 4)
                 /\ RaisesForStatus(response.status)
            THEN /\ mr_pc' = "raised"
                 /\ error' = "HTTPError"
            ELSE /\ mr_pc' = "sleep"
                 /\ error' = error
    /\ UNCHANGED <<opsVars, thrVars>>
    /\ UNCHANGED <<op, request, nb_retries, sleep_time, exponential_backoff, call, response, trace,
                   mr_calls>>
    /\ UNCHANGED <<backendVars, pageVars, bubbleVars>>
    /\ UNCHANGED extVars

\* mutant: the recursive call passes nb_retries on unchanged
MakeRequestSleepRetry_NoDecrement ==
    /\ mr_pc = "sleep"
    /\ trace' = Append(trace, SleepEvent(sleep_time))
    /\ sleep_time' = IF exponential_backoff THEN sleep_time * 2 ELSE sleep_time
    /\ nb_retries' = nb_retries
    /\ mr_pc' = "request"
    /\ UNCHANGED <<opsVars, thrVars>>
    /\ UNCHANGED <<op, request, exponential_backoff, call, response, error, mr_calls>>
    /\ UNCHANGED <<backendVars, pageVars, bubbleVars>>
    /\ UNCHANGED extVars

\* mutant: the doubling happens before the sleep
MakeRequestSleepRetry_DoubleFirst ==
    /\ mr_pc = "sleep"
    /\ sleep_time' = IF exponential_backoff THEN sleep_time * 2 ELSE sleep_time
    /\ trace' = Append(trace, SleepEvent(sleep_time'))
    /\ nb_retries' = nb_retries - 1
    /\ mr_pc' = "request"
    /\ UNCHANGED <<opsVars, thrVars>>
    /\ UNCHANGED <<op, request, exponential_backoff, call, response, error, mr_calls>>
    /\ UNCHANGED <<backendVars, pageVars, bubbleVars>>
    /\ UNCHANGED extVars

\* time.sleep(sleep_time); the doubling; the recursive call
MakeRequestSleepRetry ==
    /\ mr_pc = "sleep"
    /\ trace' = Append(trace, SleepEvent(sleep_time))
    /\ sleep_time' = IF exponential_backoff THEN sleep_time * 2 ELSE sleep_time
    /\ nb_retries' = nb_retries - 1
    /\ mr_pc' = "request"
    /\ UNCHANGED <<opsVars, thrVars>>
    /\ UNCHANGED <<op, request, exponential_backoff, call, response, error, mr_calls>>
    /\ UNCHANGED <<backendVars, pageVars, bubbleVars>>
    /\ UNCHANGED extVars

----------------------------------------------------------------------------
(* BubbleClient.get_objects_gen consumed by BubbleClient.get_objects:       *)
(* list(islice(get_objects_gen(...), max_objects))                          *)

\* the operations that consume get_objects_gen
GenOps == {"get_objects", "delete_objects"}

\* mutant: islice asks for one item more than max_objects
NeedsMore_OffByOne == IF max_objects = <<>> THEN TRUE ELSE Len(out) <= max_objects[1]

\* the consumer still needs a record: islice has not delivered max_objects yet
NeedsMore == IF max_objects = <<>> THEN TRUE ELSE Len(out) < max_objects[1]

\* islice asks the generator for its next item. A generator not started yet
\* runs to its first make_request (params["cursor"] is 0); one suspended at a
\* yield resumes inside "yield from".
IsliceNext ==
    /\ op = "get_objects"
    /\ op_pc = "running"
    /\ gen_pc \in {"start", "suspended"}
    /\ NeedsMore
    /\ IF gen_pc = "start"
       THEN /\ gen_pc' = "fetch"
            /\ EnterMakeRequest(kwargs.nb_retries, kwargs.sleep_time,
                                kwargs.exponential_backoff)
       ELSE /\ gen_pc' = "running"
            /\ UNCHANGED <<mrVars, mr_calls>>
    /\ UNCHANGED <<opsVars, thrVars>>
    /\ UNCHANGED <<op, trace, backendVars, kwargs, limit, params_cursor, max_objects,
                   op_pc, json_resp, buffer, out>>
    /\ UNCHANGED bubbleVars
    /\ UNCHANGED extVars

\* islice has delivered max_objects items: it stops without resuming the
\* generator, and list() returns
IsliceStop ==
    /\ op = "get_objects"
    /\ op_pc = "running"
    /\ gen_pc \in {"start", "suspended"}
    /\ ~NeedsMore
    /\ op_pc' = "returned"
    /\ UNCHANGED <<opsVars, thrVars>>
    /\ UNCHANGED <<op, trace, mrVars, mr_calls, backendVars, kwargs, limit, params_cursor,
                   max_objects, gen_pc, json_resp, buffer, out>>
    /\ UNCHANGED bubbleVars
    /\ UNCHANGED extVars

\* make_request returned: json_resp = resp.json()["response"], and
\* "yield from json_resp['results']" begins
GenReceive ==
    /\ op \in GenOps
    /\ gen_pc = "fetch"
    /\ mr_pc = "returned"
    /\ json_resp' = response.json
    /\ buffer' = response.json.results
    /\ gen_pc' = "running"
    /\ mr_pc' = "idle"
    /\ UNCHANGED <<opsVars, thrVars>>
    /\ UNCHANGED <<op, request, trace, mr_calls, nb_retries, sleep_time, exponential_backoff, call,
                   response, error, backendVars, kwargs, limit, params_cursor,
                   max_objects, op_pc, out>>
    /\ UNCHANGED bubbleVars
    /\ UNCHANGED extVars

\* make_request raised: the exception leaves the generator and get_objects
GenRaise ==
    /\ op \in GenOps
    /\ gen_pc = "fetch"
    /\ mr_pc = "raised"
    /\ gen_pc' = "error"
    /\ op_pc' = "raised"
    /\ mr_pc' = "idle"
    /\ UNCHANGED <<opsVars, thrVars>>
    /\ UNCHANGED <<op, request, trace, mr_calls, nb_retries, sleep_time, exponential_backoff, call,
                   response, error, backendVars, kwargs, limit, params_cursor,
                   max_objects, json_resp, buffer, out>>
    /\ UNCHANGED bubbleVars
    /\ UNCHANGED extVars

\* "yield from" hands the next record of the page to the consumer
GenYield ==
    /\ op \in GenOps
    /\ gen_pc = "running"
    /\ buffer # <<>>
    /\ out' = Append(out, Head(buffer))
    /\ buffer' = Tail(buffer)
    /\ gen_pc' = "suspended"
    /\ UNCHANGED <<opsVars, thrVars>>
    /\ UNCHANGED <<op, trace, mrVars, mr_calls, backendVars, kwargs, limit, params_cursor,
                   max_objects, op_pc, json_resp>>
    /\ UNCHANGED bubbleVars
    /\ UNCHANGED extVars

\* mutant: the cursor advances by the limit asked for, not by the count received
GenAdvance_CursorPlusLimit ==
    /\ op \in GenOps
    /\ gen_pc = "running"
    /\ buffer = <<>>
    /\ params_cursor' = json_resp.cursor + limit
    /\ IF json_resp.remaining = 0
       THEN /\ gen_pc' = "done"
            /\ op_pc' = "returned"
            /\ UNCHANGED <<mrVars, mr_calls>>
       ELSE /\ gen_pc' = "fetch"
            /\ op_pc' = op_pc
            /\ EnterMakeRequest(kwargs.nb_retries, kwargs.sleep_time,
                                kwargs.exponential_backoff)
    /\ UNCHANGED <<opsVars, thrVars>>
    /\ UNCHANGED <<op, trace, backendVars, kwargs, limit, max_objects, json_resp,
                   buffer, out>>
    /\ UNCHANGED bubbleVars
    /\ UNCHANGED extVars

\* mutant: the loop ends on an empty page instead of remaining == 0
GenAdvance_BreakOnEmptyPage ==
    /\ op \in GenOps
    /\ gen_pc = "running"
    /\ buffer = <<>>
    /\ params_cursor' = json_resp.cursor + json_resp.count
    /\ IF json_resp.count = 0
       THEN /\ gen_pc' = "done"
            /\ op_pc' = "returned"
            /\ UNCHANGED <<mrVars, mr_calls>>
       ELSE /\ gen_pc' = "fetch"
            /\ op_pc' = op_pc
            /\ EnterMakeRequest(kwargs.nb_retries, kwargs.sleep_time,
                                kwargs.exponential_backoff)
    /\ UNCHANGED <<opsVars, thrVars>>
    /\ UNCHANGED <<op, trace, backendVars, kwargs, limit, max_objects, json_resp,
                   buffer, out>>
    /\ UNCHANGED bubbleVars
    /\ UNCHANGED extVars

\* the page is used up: params["cursor"] = json_resp["cursor"] + json_resp["count"];
\* break if json_resp["remaining"] == 0 (the generator ends and list() returns),
\* otherwise the next make_request of the loop
GenAdvance ==
    /\ op \in GenOps
    /\ gen_pc = "running"
    /\ buffer = <<>>
    /\ params_cursor' = json_resp.cursor + json_resp.count
    /\ IF json_resp.remaining = 0
       THEN /\ gen_pc' = "done"
            /\ op_pc' = "returned"
            /\ UNCHANGED <<mrVars, mr_calls>>
       ELSE /\ gen_pc' = "fetch"
            /\ op_pc' = op_pc
            /\ EnterMakeRequest(kwargs.nb_retries, kwargs.sleep_time,
                                kwargs.exponential_backoff)
    /\ UNCHANGED <<opsVars, thrVars>>
    /\ UNCHANGED <<op, trace, backendVars, kwargs, limit, max_objects, json_resp,
                   buffer, out>>
    /\ UNCHANGED bubbleVars
    /\ UNCHANGED extVars

----------------------------------------------------------------------------
(* Bubble.make_request (src/src/bubble_api/bubble.py): the retry loop *)

RECURSIVE Pow(_, _)
Pow(b, k) == IF k = 0 THEN 1 ELSE b * Pow(b, k - 1)

NoData == [results |-> <<>>, remaining |-> 0, count |-> 0]

\* the frame of Bubble.make_request when no call is in progress
BubbleIdle ==
    /\ b_pc = "idle"
    /\ b_args = [cursor |-> 0, limit |-> 1, unique_id |-> <<>>]
    /\ n_retries = 0
    /\ base_wait_time = 0
    /\ retry_index = 0
    /\ break_while = FALSE
    /\ resp = NoResponse
    /\ no_resp_error = "Unknown error"
    /\ pending = "none"
    /\ get_data_resp = NoData
    /\ detail = "none"

\* the caller enters Bubble.make_request(cursor = c, limit = l, unique_id = u)
\* with the retry arguments of the operation; the arguments are checked and the
\* locals of the loop are initialised
BubbleEnter(c, l, u) ==
    /\ b_args' = [cursor |-> c, limit |-> l, unique_id |-> u]
    /\ n_retries' = kwargs.nb_retries
    /\ base_wait_time' = kwargs.sleep_time
    /\ exponential_backoff' = kwargs.exponential_backoff
    /\ break_while' = FALSE
    /\ retry_index' = 0
    /\ resp' = NoResponse
    /\ no_resp_error' = "Unknown error"
    /\ pending' = "none"
    /\ get_data_resp' = NoData
    /\ detail' = "none"
    /\ mr_calls' = mr_calls + 1
    /\ IF kwargs.exponential_backoff /\ kwargs.sleep_time <= 1
       THEN /\ b_pc' = "raised"
            /\ error' = "ValueError"
       ELSE /\ b_pc' = "try"
            /\ error' = "none"

\* resp = requests.get(...): the transport answers, or raises ConnectionError
\* or ReadTimeout, which the except clauses turn into no_resp_error
BubbleTry ==
    /\ b_pc = "try"
    /\ \/ \E r \in BubbleResponses(b_args) :
            /\ (r.status = 200 /\ r.body = "keyed") \/ MayFail
            /\ r.body \in BodyShapes(r.status)
            /\ resp' = r
            /\ trace' = Append(trace, RequestEvent("response", r, r.body, b_args.cursor))
            /\ b_pc' = "handle"
            /\ no_resp_error' = no_resp_error
       \/ \E x \in {"ConnectionError", "ReadTimeout"} :
            /\ MayFail
            /\ resp' = resp
            /\ trace' = Append(trace, RequestEvent(x, NoResponse, "none", b_args.cursor))
            /\ b_pc' = "finally"
            /\ no_resp_error' = x
    /\ UNCHANGED <<opsVars, thrVars>>
    /\ UNCHANGED <<op, mrVars, mr_calls, backendVars, pageVars, fullVars>>
    /\ UNCHANGED <<b_args, n_retries, base_wait_time, retry_index, break_while, pending,
                   get_data_resp, detail>>
    /\ UNCHANGED extVars

\* the GetDataResp built from a successful response with body shape sh
ParsedData(r, u) ==
    IF u # <<>>
    THEN [results |-> u, remaining |-> 0, count |-> 1]
    ELSE [results |-> r.json.results, remaining |-> r.json.remaining,
          count |-> r.json.count]

\* the id the backend gives the record that create_object creates: the one
\* after the records it holds
NewId == Len(table) + 1

\* the branches on resp.ok and resp.status_code, up to the finally clause:
\* what leaves the try block (a return, an exception or nothing); for
\* update_object and create_object the value returned is kept as the results
\* of get_data_resp
BubbleHandle ==
    /\ b_pc = "handle"
    /\ b_pc' = "finally"
    /\ IF resp.status < 400 /\ BubbleMethod = "PATCH"
       THEN \* update_object, resp.ok: return unique_id (break_while stays False)
            /\ break_while' = break_while
            /\ pending' = "return"
            /\ error' = error
            /\ get_data_resp' = [results |-> b_args.unique_id, remaining |-> 0,
                                  count |-> 1]
       ELSE IF resp.status < 400 /\ BubbleMethod = "POST"
       THEN \* create_object, resp.ok: return resp.json().get("id") (break_while
            \* stays False)
            /\ break_while' = break_while
            /\ IF resp.body = "not_json"
               THEN /\ pending' = "raise"
                    /\ error' = "JSONDecodeError"
                    /\ get_data_resp' = get_data_resp
               ELSE IF resp.body = "array"
               THEN \* json_resp.get raises AttributeError, which is caught
                    /\ pending' = "none"
                    /\ error' = error
                    /\ get_data_resp' = get_data_resp
               ELSE /\ pending' = "return"
                    /\ error' = error
                    /\ get_data_resp' =
                           [results |-> IF resp.body = "keyed" THEN <<NewId>> ELSE <<>>,
                            remaining |-> 0, count |-> 1]
       ELSE IF resp.status < 400
       THEN \* resp.ok
            /\ break_while' = TRUE
            /\ IF resp.body = "not_json"
               THEN /\ pending' = "raise"
                    /\ error' = "JSONDecodeError"
                    /\ get_data_resp' = get_data_resp
               ELSE IF resp.body = "array"
               THEN \* json_resp.get raises AttributeError, which is caught
                    /\ pending' = "none"
                    /\ error' = error
                    /\ get_data_resp' = get_data_resp
               ELSE /\ pending' = "return"
                    /\ error' = error
                    /\ get_data_resp' = ParsedData(resp, b_args.unique_id)
       ELSE IF resp.status \in {400, 404}
       THEN /\ break_while' = TRUE
            /\ IF resp.status = 404 /\ b_args.unique_id # <<>> /\ BubbleMethod = "GET"
               THEN /\ pending' = "return"
                    /\ error' = error
                    /\ get_data_resp' = NoData
               ELSE /\ get_data_resp' = get_data_resp
                    /\ IF resp.body = "not_json"
                       THEN pending' = "raise" /\ error' = "JSONDecodeError"
                       ELSE IF resp.body = "keyed"
                       THEN pending' = "raise" /\ error' = "ValueError"
                       ELSE pending' = "none" /\ error' = error
       ELSE IF resp.status = 401
       THEN /\ break_while' = TRUE
            /\ get_data_resp' = get_data_resp
            /\ IF resp.body = "not_json"
               THEN pending' = "raise" /\ error' = "JSONDecodeError"
               ELSE IF resp.body = "keyed"
               THEN pending' = "raise" /\ error' = "ValueError"
               ELSE IF resp.body = "array"
               THEN pending' = "none" /\ error' = error
               ELSE pending' = "none" /\ error' = error
       ELSE /\ break_while' = break_while
            /\ pending' = "none"
            /\ error' = error
            /\ get_data_resp' = get_data_resp
    /\ UNCHANGED <<opsVars, thrVars>>
    /\ UNCHANGED <<op, request, mr_pc, nb_retries, sleep_time, exponential_backoff, call, response,
                   trace, mr_calls, backendVars, pageVars, fullVars>>
    /\ UNCHANGED <<b_args, n_retries, base_wait_time, retry_index, resp, no_resp_error,
                   detail>>
    /\ UNCHANGED extVars

\* mutant: the backoff starts at base_wait_time instead of 0, and the fixed
\* wait is doubled
BubbleSleepTime_NoZeroStart ==
    IF exponential_backoff
    THEN Pow(base_wait_time, retry_index + 1)
    ELSE 2 * base_wait_time

\* the wait before the next attempt
BubbleSleepTime ==
    IF exponential_backoff
    THEN (IF retry_index = 0 THEN 0 ELSE Pow(base_wait_time, retry_index))
    ELSE base_wait_time

\* mutant: the loop test is retry_index < n_retries, one attempt fewer
BubbleFinally_OneAttemptFewer ==
    /\ b_pc = "finally"
    /\ trace' = IF ~break_while /\ retry_index < n_retries
                THEN Append(trace, SleepEvent(BubbleSleepTime))
                ELSE trace
    /\ retry_index' = retry_index + 1
    /\ b_pc' = IF pending = "return" THEN "returned"
               ELSE IF pending = "raise" THEN "raised"
               ELSE IF retry_index + 1 < n_retries /\ ~break_while THEN "try"
               ELSE "exhausted"
    /\ UNCHANGED <<opsVars, thrVars>>
    /\ UNCHANGED <<op, mrVars, mr_calls, backendVars, pageVars, fullVars>>
    /\ UNCHANGED <<b_args, n_retries, base_wait_time, break_while, resp, no_resp_error,
                   pending, get_data_resp, detail>>
    /\ UNCHANGED extVars

\* the finally clause: the sleep if another attempt follows, retry_index += 1;
\* then the pending return or exception, or the loop test
BubbleFinally ==
    /\ b_pc = "finally"
    /\ trace' = IF ~break_while /\ retry_index < n_retries
                THEN Append(trace, SleepEvent(BubbleSleepTime))
                ELSE trace
    /\ retry_index' = retry_index + 1
    /\ b_pc' = IF pending = "return" THEN "returned"
               ELSE IF pending = "raise" THEN "raised"
               ELSE IF retry_index + 1 <= n_retries /\ ~break_while THEN "try"
               ELSE "exhausted"
    /\ UNCHANGED <<opsVars, thrVars>>
    /\ UNCHANGED <<op, mrVars, mr_calls, backendVars, pageVars, fullVars>>
    /\ UNCHANGED <<b_args, n_retries, base_wait_time, break_while, resp, no_resp_error,
                   pending, get_data_resp, detail>>
    /\ UNCHANGED extVars

\* after the loop: ValueError reporting the last response, or, if resp is
\* still None, no_resp_error
BubbleExhausted ==
    /\ b_pc = "exhausted"
    /\ b_pc' = "raised"
    /\ error' = "ValueError"
    /\ detail' = IF resp # NoResponse THEN "last_response" ELSE no_resp_error
    /\ UNCHANGED <<opsVars, thrVars>>
    /\ UNCHANGED <<op, request, mr_pc, nb_retries, sleep_time, exponential_backoff, call, response,
                   trace, mr_calls, backendVars, pageVars, fullVars>>
    /\ UNCHANGED <<b_args, n_retries, base_wait_time, retry_index, break_while, resp,
                   no_resp_error, pending, get_data_resp>>
    /\ UNCHANGED extVars

----------------------------------------------------------------------------
(* Bubble.make_full_request with n_threads = 0 and no path_to_file *)

\* while remaining > 0: the next make_request of the loop
FullLoop ==
    /\ op = "make_full_request"
    /\ n_threads = 0
    /\ op_pc = "running"
    /\ b_pc = "idle"
    /\ remaining > 0
    /\ BubbleEnter(cursor, limit, <<>>)
    /\ UNCHANGED <<opsVars, thrVars>>
    /\ UNCHANGED <<op, request, mr_pc, nb_retries, sleep_time, call, response, trace,
                   backendVars, pageVars, fullVars>>
    /\ UNCHANGED extVars

\* mutant: the page replaces full_results instead of extending it
FullReceive_Overwrite ==
    /\ op = "make_full_request"
    /\ n_threads = 0
    /\ b_pc = "returned"
    /\ full_results' = get_data_resp.results
    /\ remaining' = get_data_resp.remaining
    /\ cursor' = cursor + get_data_resp.count
    /\ b_pc' = "idle"
    /\ UNCHANGED <<opsVars, thrVars>>
    /\ UNCHANGED <<op, mrVars, trace, mr_calls, backendVars, kwargs, limit, params_cursor,
                   max_objects, op_pc, gen_pc, json_resp, buffer, out>>
    /\ UNCHANGED <<b_args, n_retries, base_wait_time, retry_index, break_while, resp,
                   no_resp_error, pending, get_data_resp, detail>>
    /\ UNCHANGED extVars

\* full_results.extend(get_data_resp.results); remaining and cursor are updated
FullReceive ==
    /\ op = "make_full_request"
    /\ n_threads = 0
    /\ b_pc = "returned"
    /\ full_results' = full_results \o get_data_resp.results
    /\ remaining' = get_data_resp.remaining
    /\ cursor' = cursor + get_data_resp.count
    /\ b_pc' = "idle"
    /\ UNCHANGED <<opsVars, thrVars>>
    /\ UNCHANGED <<op, mrVars, trace, mr_calls, backendVars, kwargs, limit, params_cursor,
                   max_objects, op_pc, gen_pc, json_resp, buffer, out>>
    /\ UNCHANGED <<b_args, n_retries, base_wait_time, retry_index, break_while, resp,
                   no_resp_error, pending, get_data_resp, detail>>
    /\ UNCHANGED extVars

\* the loop ends: GetFullDataResp(results = full_results) is returned
FullReturn ==
    /\ op = "make_full_request"
    /\ n_threads = 0
    /\ op_pc = "running"
    /\ b_pc = "idle"
    /\ remaining <= 0
    /\ op_pc' = "returned"
    /\ UNCHANGED <<opsVars, thrVars>>
    /\ UNCHANGED <<op, mrVars, trace, mr_calls, backendVars, kwargs, limit, params_cursor,
                   max_objects, gen_pc, json_resp, buffer, out, bubbleVars>>
    /\ UNCHANGED extVars

\* an exception of make_request leaves make_full_request
FullRaise ==
    /\ op = "make_full_request"
    /\ n_threads = 0
    /\ op_pc = "running"
    /\ b_pc = "raised"
    /\ op_pc' = "raised"
    /\ UNCHANGED <<opsVars, thrVars>>
    /\ UNCHANGED <<op, mrVars, trace, mr_calls, backendVars, kwargs, limit, params_cursor,
                   max_objects, gen_pc, json_resp, buffer, out, bubbleVars>>
    /\ UNCHANGED extVars

----------------------------------------------------------------------------
(* BubbleClient.delete, delete_by_id, delete_by_ids, delete_objects, delete_all *)

\* The arguments of delete: bubble_id is None, a str, an iterable of ids, or
\* something else that is not None (kind); constraints is None or a list.
NoArgs == [bubble_id |-> [kind |-> "None", ids |-> <<>>], constraints |-> "None"]

\* the id delete_by_id is called with: the argument of delete, or the item the
\* for loop of delete_by_ids took last
CurrentId == IF op = "delete_by_id" THEN ids[1] ELSE out[Len(out)]

\* mutant: the check that both bubble_id and constraints are given is missing
Delete_NoBothCheck ==
    /\ op = "delete"
    /\ op_pc = "running"
    /\ del_pc = "dispatch"
    /\ IF d_args.bubble_id.kind = "str"
       THEN /\ op' = "delete_by_id"
            /\ ids' = d_args.bubble_id.ids
            /\ del_pc' = "item"
            /\ UNCHANGED <<op_pc, error, gen_pc>>
       ELSE IF d_args.bubble_id.kind = "list"
       THEN /\ op' = "delete_by_ids"
            /\ ids' = d_args.bubble_id.ids
            /\ del_pc' = "loop"
            /\ UNCHANGED <<op_pc, error, gen_pc>>
       ELSE IF d_args.constraints # "None"
       THEN /\ op' = "delete_objects"
            /\ gen_pc' = "start"
            /\ del_pc' = "loop"
            /\ UNCHANGED <<op_pc, error, ids>>
       ELSE /\ op_pc' = "raised"
            /\ error' = "Warning"
            /\ del_pc' = "done"
            /\ UNCHANGED <<op, ids, gen_pc>>
    /\ UNCHANGED <<mr_pc, nb_retries, sleep_time, exponential_backoff, call, response,
                   request, trace, mr_calls, backendVars, kwargs, limit, params_cursor,
                   max_objects, json_resp, buffer, out, bubbleVars>>
    /\ UNCHANGED <<d_args, variant, api_token, fields, result, thrVars>>
    /\ UNCHANGED extVars

\* delete: TypeError if both bubble_id and constraints are given; delete_by_id
\* for a str, delete_by_ids for an iterable, delete_objects for constraints;
\* Warning otherwise
Delete ==
    /\ op = "delete"
    /\ op_pc = "running"
    /\ del_pc = "dispatch"
    /\ IF d_args.bubble_id.kind # "None" /\ d_args.constraints # "None"
       THEN /\ op_pc' = "raised"
            /\ error' = "TypeError"
            /\ del_pc' = "done"
            /\ UNCHANGED <<op, ids, gen_pc>>
       ELSE IF d_args.bubble_id.kind = "str"
       THEN /\ op' = "delete_by_id"
            /\ ids' = d_args.bubble_id.ids
            /\ del_pc' = "item"
            /\ UNCHANGED <<op_pc, error, gen_pc>>
       ELSE IF d_args.bubble_id.kind = "list"
       THEN /\ op' = "delete_by_ids"
            /\ ids' = d_args.bubble_id.ids
            /\ del_pc' = "loop"
            /\ UNCHANGED <<op_pc, error, gen_pc>>
       ELSE IF d_args.constraints # "None"
       THEN /\ op' = "delete_objects"
            /\ gen_pc' = "start"
            /\ del_pc' = "loop"
            /\ UNCHANGED <<op_pc, error, ids>>
       ELSE /\ op_pc' = "raised"
            /\ error' = "Warning"
            /\ del_pc' = "done"
            /\ UNCHANGED <<op, ids, gen_pc>>
    /\ UNCHANGED <<mr_pc, nb_retries, sleep_time, exponential_backoff, call, response,
                   request, trace, mr_calls, backendVars, kwargs, limit, params_cursor,
                   max_objects, json_resp, buffer, out, bubbleVars>>
    /\ UNCHANGED <<d_args, variant, api_token, fields, result, thrVars>>
    /\ UNCHANGED extVars

\* delete_all: delete_objects with an empty list of constraints. delete_objects
\* creates the generator get_objects_gen(...) and hands its ids to delete_by_ids.
DeleteAll ==
    /\ op = "delete_all"
    /\ op_pc = "running"
    /\ del_pc = "dispatch"
    /\ op' = "delete_objects"
    /\ gen_pc' = "start"
    /\ del_pc' = "loop"
    /\ UNCHANGED <<mrVars, trace, mr_calls, backendVars, kwargs, limit, params_cursor,
                   max_objects, op_pc, json_resp, buffer, out, bubbleVars>>
    /\ UNCHANGED <<ids, d_args, variant, api_token, fields, result, thrVars>>
    /\ UNCHANGED extVars

\* mutant: the for loop takes the next id without deleting the one it holds
DeleteByIdsNext_SkipBody ==
    /\ op \in {"delete_by_ids", "delete_objects"}
    /\ op_pc = "running"
    /\ del_pc \in {"loop", "item"}
    /\ IF op = "delete_by_ids"
       THEN /\ IF Len(out) < Len(ids)
               THEN /\ out' = Append(out, ids[Len(out) + 1])
                    /\ del_pc' = "item"
                    /\ op_pc' = op_pc
               ELSE /\ out' = out
                    /\ del_pc' = "done"
                    /\ op_pc' = "returned"
            /\ UNCHANGED <<mrVars, mr_calls, gen_pc>>
       ELSE /\ gen_pc \in {"start", "suspended"}
            /\ del_pc' = "item"
            /\ IF gen_pc = "start"
               THEN /\ gen_pc' = "fetch"
                    /\ EnterMakeRequest(kwargs.nb_retries, kwargs.sleep_time,
                                        kwargs.exponential_backoff)
               ELSE /\ gen_pc' = "running"
                    /\ UNCHANGED <<mrVars, mr_calls>>
            /\ UNCHANGED <<out, op_pc>>
    /\ UNCHANGED <<op, trace, backendVars, kwargs, limit, params_cursor, max_objects,
                   json_resp, buffer, bubbleVars>>
    /\ UNCHANGED <<ids, d_args, variant, api_token, fields, result, thrVars>>
    /\ UNCHANGED extVars

\* "for _id in ids" of delete_by_ids: the next id of the list, or of the
\* generator (which starts, or resumes inside "yield from"); the loop ends
\* when the list is used up (the generator ends in GenAdvance)
DeleteByIdsNext ==
    /\ op \in {"delete_by_ids", "delete_objects"}
    /\ op_pc = "running"
    /\ del_pc = "loop"
    /\ IF op = "delete_by_ids"
       THEN /\ IF Len(out) < Len(ids)
               THEN /\ out' = Append(out, ids[Len(out) + 1])
                    /\ del_pc' = "item"
                    /\ op_pc' = op_pc
               ELSE /\ out' = out
                    /\ del_pc' = "done"
                    /\ op_pc' = "returned"
            /\ UNCHANGED <<mrVars, mr_calls, gen_pc>>
       ELSE /\ gen_pc \in {"start", "suspended"}
            /\ del_pc' = "item"
            /\ IF gen_pc = "start"
               THEN /\ gen_pc' = "fetch"
                    /\ EnterMakeRequest(kwargs.nb_retries, kwargs.sleep_time,
                                        kwargs.exponential_backoff)
               ELSE /\ gen_pc' = "running"
                    /\ UNCHANGED <<mrVars, mr_calls>>
            /\ UNCHANGED <<out, op_pc>>
    /\ UNCHANGED <<op, trace, backendVars, kwargs, limit, params_cursor, max_objects,
                   json_resp, buffer, bubbleVars>>
    /\ UNCHANGED <<ids, d_args, variant, api_token, fields, result, thrVars>>
    /\ UNCHANGED extVars

\* delete_by_id: make_request(method = "DELETE", url = .../{bubble_id}, **kwargs)
DeleteById ==
    /\ op \in {"delete_by_id", "delete_by_ids", "delete_objects"}
    /\ op_pc = "running"
    /\ del_pc = "item"
    /\ op = "delete_objects" => gen_pc = "suspended"
    /\ del_pc' = "deleting"
    /\ EnterRequest([method |-> "DELETE", id |-> CurrentId, data |-> <<>>,
                      headers |-> <<>>],
                    kwargs.nb_retries, kwargs.sleep_time, kwargs.exponential_backoff)
    /\ UNCHANGED <<op, trace, backendVars, pageVars, bubbleVars>>
    /\ UNCHANGED <<ids, d_args, variant, api_token, fields, result, thrVars>>
    /\ UNCHANGED extVars

\* mutant: delete_by_ids goes on with the next id after a failed delete
DeleteRaised_Continue ==
    /\ del_pc = "deleting"
    /\ mr_pc = "raised"
    /\ mr_pc' = "idle"
    /\ IF op = "delete_by_id"
       THEN op_pc' = "raised" /\ del_pc' = "done"
       ELSE op_pc' = op_pc /\ del_pc' = "loop"
    /\ UNCHANGED <<op, nb_retries, sleep_time, exponential_backoff, call, response, error,
                   request, trace, mr_calls, backendVars, kwargs, limit, params_cursor,
                   max_objects, gen_pc, json_resp, buffer, out, bubbleVars>>
    /\ UNCHANGED <<ids, d_args, variant, api_token, fields, result, thrVars>>
    /\ UNCHANGED extVars

\* make_request returned: delete_by_id returns None; delete_by_ids goes on
\* to the next id
DeleteReturned ==
    /\ del_pc = "deleting"
    /\ mr_pc = "returned"
    /\ mr_pc' = "idle"
    /\ IF op = "delete_by_id"
       THEN op_pc' = "returned" /\ del_pc' = "done"
       ELSE op_pc' = op_pc /\ del_pc' = "loop"
    /\ UNCHANGED <<op, nb_retries, sleep_time, exponential_backoff, call, response, error,
                   request, trace, mr_calls, backendVars, kwargs, limit, params_cursor,
                   max_objects, gen_pc, json_resp, buffer, out, bubbleVars>>
    /\ UNCHANGED <<ids, d_args, variant, api_token, fields, result, thrVars>>
    /\ UNCHANGED extVars

\* make_request raised: the exception leaves delete_by_id, the for loop of
\* delete_by_ids and the operation
DeleteRaised ==
    /\ del_pc = "deleting"
    /\ mr_pc = "raised"
    /\ mr_pc' = "idle"
    /\ op_pc' = "raised"
    /\ del_pc' = "done"
    /\ UNCHANGED <<op, nb_retries, sleep_time, exponential_backoff, call, response, error,
                   request, trace, mr_calls, backendVars, kwargs, limit, params_cursor,
                   max_objects, gen_pc, json_resp, buffer, out, bubbleVars>>
    /\ UNCHANGED <<ids, d_args, variant, api_token, fields, result, thrVars>>
    /\ UNCHANGED extVars

----------------------------------------------------------------------------
(* count_objects (BubbleClient and BubbleWrapper) and create_bulk *)

\* params["limit"] of count_objects: 1 in BubbleClient, 100 in BubbleWrapper
CountLimit(v) == IF v = "client" THEN 1 ELSE 100

\* count_objects: params = {constraints, cursor: 0, limit}, then make_request
CountObjects ==
    /\ op = "count_objects"
    /\ op_pc = "running"
    /\ mr_pc = "idle"
    /\ mr_calls = 0
    /\ params_cursor' = 0
    /\ limit' = CountLimit(variant)
    /\ EnterMakeRequest(kwargs.nb_retries, kwargs.sleep_time, kwargs.exponential_backoff)
    /\ UNCHANGED <<op, trace, backendVars, kwargs, max_objects, op_pc, gen_pc, json_resp,
                   buffer, out, bubbleVars, opsVars, thrVars>>
    /\ UNCHANGED extVars

\* json_resp = resp.json()["response"]; return json_resp["count"] + json_resp["remaining"]
CountReturn ==
    /\ op = "count_objects"
    /\ op_pc = "running"
    /\ mr_pc = "returned"
    /\ json_resp' = response.json
    /\ result' = <<response.json.count + response.json.remaining>>
    /\ op_pc' = "returned"
    /\ mr_pc' = "idle"
    /\ UNCHANGED <<op, nb_retries, sleep_time, exponential_backoff, call, response, error,
                   request, trace, mr_calls, backendVars, kwargs, limit, params_cursor,
                   max_objects, gen_pc, buffer, out, bubbleVars>>
    /\ UNCHANGED <<ids, d_args, del_pc, variant, api_token, fields, thrVars>>
    /\ UNCHANGED extVars

\* an exception of make_request leaves count_objects or create_bulk
CallRaise ==
    /\ op \in {"count_objects", "create_bulk"}
    /\ op_pc = "running"
    /\ mr_pc = "raised"
    /\ op_pc' = "raised"
    /\ mr_pc' = "idle"
    /\ UNCHANGED <<op, nb_retries, sleep_time, exponential_backoff, call, response, error,
                   request, trace, mr_calls, backendVars, kwargs, limit, params_cursor,
                   max_objects, gen_pc, json_resp, buffer, out, bubbleVars>>
    /\ UNCHANGED <<opsVars, thrVars>>
    /\ UNCHANGED extVars

\* data = "\n".join(json.dumps(f) for f in fields)
BulkData(fs) == Join([i \in 1..Len(fs) |-> JsonDumps(fs[i])])

\* create_bulk: the headers {**self._get_headers(), "Content-Type": ...}
\* (_get_headers() is None without an api_token, and ** of None raises
\* TypeError), then make_request(method = "POST", data = ..., headers = ...)
CreateBulk ==
    /\ op = "create_bulk"
    /\ op_pc = "running"
    /\ mr_pc = "idle"
    /\ mr_calls = 0
    /\ IF api_token
       THEN /\ EnterRequest([method |-> "POST", id |-> 0, data |-> BulkData(fields),
                             headers |-> <<GetHeaders[1] \cup {"Content-Type"}>>],
                            kwargs.nb_retries, kwargs.sleep_time,
                            kwargs.exponential_backoff)
            /\ op_pc' = op_pc
       ELSE /\ op_pc' = "raised"
            /\ error' = "TypeError"
            /\ UNCHANGED <<mr_pc, nb_retries, sleep_time, exponential_backoff, call,
                           response, request, mr_calls>>
    /\ UNCHANGED <<op, trace, backendVars, kwargs, limit, params_cursor, max_objects,
                   gen_pc, json_resp, buffer, out, bubbleVars, opsVars, thrVars>>
    /\ UNCHANGED extVars

\* return [json.loads(r) for r in resp.text.split("\n")]: the list of the
\* decoded lines, or the JSONDecodeError of the first line json.loads rejects
BulkReturn ==
    /\ op = "create_bulk"
    /\ op_pc = "running"
    /\ mr_pc = "returned"
    /\ mr_pc' = "idle"
    /\ LET pieces == Split(response.text)
       IN  IF \A i \in 1..Len(pieces) : JsonLoadable(pieces[i])
           THEN /\ result' = <<[i \in 1..Len(pieces) |-> JsonLoads(pieces[i])]>>
                /\ op_pc' = "returned"
                /\ error' = error
           ELSE /\ result' = result
                /\ op_pc' = "raised"
                /\ error' = "JSONDecodeError"
    /\ UNCHANGED <<op, nb_retries, sleep_time, exponential_backoff, call, response,
                   request, trace, mr_calls, backendVars, kwargs, limit, params_cursor,
                   max_objects, gen_pc, json_resp, buffer, out, bubbleVars>>
    /\ UNCHANGED <<ids, d_args, del_pc, variant, api_token, fields, thrVars>>
    /\ UNCHANGED extVars

----------------------------------------------------------------------------
(* BubbleClient.get_by_id, synchronous (client.py) and asynchronous          *)
(* (asyncio/client.py)                                                       *)

\* what get_by_id returns when the query by column matched nothing
None == 0

\* the retry arguments of make_request when the caller passes none:
\* nb_retries = 3, sleep_time = 0.2 (one unit), exponential_backoff = False
DefaultArgs == [nb_retries |-> 3, sleep_time |-> 1, exponential_backoff |-> FALSE]

\* What `async with httpx.AsyncClient as client` raises: the context manager
\* is the class, not an instance, and the interpreter looks the protocol up
\* on its type (AttributeError up to Python 3.10, TypeError from 3.11 on)
AsyncWithErrors == {"AttributeError", "TypeError"}

\* mutant: the synchronous lookup by column raises on an empty result
GetByIdFirst_RaiseOnEmpty ==
    /\ by_pc = "objects"
    /\ op = "get_objects"
    /\ op_pc \in {"returned", "raised"}
    /\ by_pc' = "done"
    /\ IF op_pc = "returned" /\ Len(out) > 0
       THEN result' = <<out[1]>> /\ error' = error /\ op_pc' = op_pc
       ELSE result' = result /\ op_pc' = "raised"
            /\ error' = IF op_pc = "returned" THEN "HTTPError" ELSE error
    /\ UNCHANGED <<op, mr_pc, nb_retries, sleep_time, exponential_backoff, call, response,
                   request, trace, mr_calls, backendVars, kwargs, limit, params_cursor,
                   max_objects, gen_pc, json_resp, buffer, out, bubbleVars>>
    /\ UNCHANGED <<ids, d_args, del_pc, variant, api_token, fields, thrVars>>
    /\ UNCHANGED <<column_name, fail_if_not_found, bubble_id, conVars, loopVars, max_failures>>

\* mutant: a 404 of the lookup by id gives None
GetByIdRaise_NoneOn404 ==
    /\ op = "get_by_id"
    /\ by_pc = "request"
    /\ mr_pc = "raised"
    /\ mr_pc' = "idle"
    /\ by_pc' = "done"
    /\ IF response.status = 404
       THEN op_pc' = "returned" /\ result' = <<None>>
       ELSE op_pc' = "raised" /\ result' = result
    /\ UNCHANGED <<op, nb_retries, sleep_time, exponential_backoff, call, response, error,
                   request, trace, mr_calls, backendVars, kwargs, limit, params_cursor,
                   max_objects, gen_pc, json_resp, buffer, out, bubbleVars>>
    /\ UNCHANGED <<ids, d_args, del_pc, variant, api_token, fields, thrVars>>
    /\ UNCHANGED <<column_name, fail_if_not_found, bubble_id, conVars, loopVars, max_failures>>

\* the id in the URL .../{bubble_id}: for bubble_id = None the text "None",
\* which is the id of no record
UrlId(b) == IF b = None THEN MaxRecords + MaxIds + 1 ELSE b

\* get(bubble_type, bubble_id, column_name, constraints, **kwargs).
\* BubbleClient.get (sync and async): get_by_id(bubble_type, bubble_id,
\* column_name, **kwargs) if bubble_id is not None, else get_objects(
\* bubble_type, constraints, **kwargs). BubbleWrapper.get: get_by_id(
\* bubble_type, bubble_id, **kwargs) if bubble_id is None, else get_objects.
\* In the asynchronous client get_objects raises TypeError (islice over an
\* async generator) before any request. BubbleWrapper.get_objects takes no
\* keyword arguments: called with retry arguments (kwargs other than the
\* defaults, which stand for none given) it raises TypeError.
Get ==
    /\ op = "get"
    /\ op_pc = "running"
    /\ by_pc = "get"
    /\ IF (IF variant = "wrapper" THEN bubble_id = None ELSE bubble_id # None)
       THEN /\ op' = "get_by_id"
            /\ by_pc' = "start"
            /\ UNCHANGED <<op_pc, error, limit, max_objects, gen_pc>>
       ELSE /\ by_pc' = "list"
            /\ IF variant = "async" \/ (variant = "wrapper" /\ kwargs # DefaultArgs)
               THEN /\ op_pc' = "raised"
                    /\ error' = "TypeError"
                    /\ UNCHANGED <<op, limit, max_objects, gen_pc>>
               ELSE /\ op' = "get_objects"
                    /\ limit' = 100
                    /\ max_objects' = <<>>
                    /\ gen_pc' = "start"
                    /\ UNCHANGED <<op_pc, error>>
    /\ UNCHANGED <<mr_pc, nb_retries, sleep_time, exponential_backoff, call, response,
                   request, trace, mr_calls, backendVars, kwargs, params_cursor, json_resp,
                   buffer, out, bubbleVars, opsVars, thrVars>>
    /\ UNCHANGED <<column_name, fail_if_not_found, bubble_id, conVars, loopVars, max_failures>>

\* get_by_id(bubble_type, bubble_id, column_name, **kwargs).
\* With a column_name: objs = get_objects(type, [Field(column_name) == bubble_id])
\* with no kwargs, so with the default limit and retry arguments; in the
\* asynchronous client get_objects hands an async generator to islice, which
\* raises TypeError before any request.
\* Without: make_request(method = "GET", url = .../{bubble_id}, **kwargs); in
\* the asynchronous client make_request fails on entering its async with.
GetById ==
    /\ op = "get_by_id"
    /\ op_pc = "running"
    /\ by_pc = "start"
    /\ mr_pc = "idle"
    /\ IF column_name
       THEN IF variant = "async"
            THEN /\ op_pc' = "raised"
                 /\ error' = "TypeError"
                 /\ by_pc' = "done"
                 /\ UNCHANGED <<op, mr_pc, nb_retries, sleep_time, exponential_backoff,
                                call, response, request, mr_calls, kwargs, limit,
                                max_objects, gen_pc>>
            ELSE /\ op' = "get_objects"
                 /\ kwargs' = DefaultArgs
                 /\ limit' = 100
                 /\ max_objects' = <<>>
                 /\ gen_pc' = "start"
                 /\ by_pc' = "objects"
                 /\ UNCHANGED <<op_pc, mrVars, mr_calls>>
       ELSE IF variant = "async"
            THEN /\ op_pc' = "raised"
                 /\ error' \in AsyncWithErrors
                 /\ by_pc' = "done"
                 /\ UNCHANGED <<op, mr_pc, nb_retries, sleep_time, exponential_backoff,
                                call, response, request, mr_calls, kwargs, limit,
                                max_objects, gen_pc>>
            ELSE /\ EnterRequest([method |-> "GET", id |-> UrlId(bubble_id), data |-> <<>>,
                                  headers |-> <<>>],
                                 kwargs.nb_retries, kwargs.sleep_time,
                                 kwargs.exponential_backoff)
                 /\ by_pc' = "request"
                 /\ UNCHANGED <<op, op_pc, kwargs, limit, max_objects, gen_pc>>
    /\ UNCHANGED <<trace, backendVars, params_cursor, json_resp, buffer, out, bubbleVars,
                   opsVars, thrVars>>
    /\ UNCHANGED <<column_name, fail_if_not_found, bubble_id, conVars, loopVars, max_failures>>

\* return resp.json()["response"]: the record of that id
GetByIdReturn ==
    /\ op = "get_by_id"
    /\ by_pc = "request"
    /\ mr_pc = "returned"
    /\ mr_pc' = "idle"
    /\ result' = <<request.id>>
    /\ op_pc' = "returned"
    /\ by_pc' = "done"
    /\ UNCHANGED <<op, nb_retries, sleep_time, exponential_backoff, call, response, error,
                   request, trace, mr_calls, backendVars, kwargs, limit, params_cursor,
                   max_objects, gen_pc, json_resp, buffer, out, bubbleVars>>
    /\ UNCHANGED <<ids, d_args, del_pc, variant, api_token, fields, thrVars>>
    /\ UNCHANGED <<column_name, fail_if_not_found, bubble_id, conVars, loopVars, max_failures>>

\* the exception of make_request leaves get_by_id
GetByIdRaise ==
    /\ op = "get_by_id"
    /\ by_pc = "request"
    /\ mr_pc = "raised"
    /\ mr_pc' = "idle"
    /\ by_pc' = "done"
    /\ op_pc' = "raised"
    /\ result' = result
    /\ UNCHANGED <<op, nb_retries, sleep_time, exponential_backoff, call, response, error,
                   request, trace, mr_calls, backendVars, kwargs, limit, params_cursor,
                   max_objects, gen_pc, json_resp, buffer, out, bubbleVars>>
    /\ UNCHANGED <<ids, d_args, del_pc, variant, api_token, fields, thrVars>>
    /\ UNCHANGED <<column_name, fail_if_not_found, bubble_id, conVars, loopVars, max_failures>>

\* get_objects is back in the synchronous get_by_id:
\* return objs[0] if len(objs) > 0 else None (or its exception goes on)
GetByIdFirst ==
    /\ by_pc = "objects"
    /\ op = "get_objects"
    /\ op_pc \in {"returned", "raised"}
    /\ by_pc' = "done"
    /\ result' = IF op_pc = "raised" THEN result
                 ELSE IF Len(out) > 0 THEN <<out[1]>> ELSE <<None>>
    /\ UNCHANGED <<op, mrVars, trace, mr_calls, backendVars, pageVars, bubbleVars>>
    /\ UNCHANGED <<ids, d_args, del_pc, variant, api_token, fields, thrVars>>
    /\ UNCHANGED <<column_name, fail_if_not_found, bubble_id, conVars, loopVars, max_failures>>

----------------------------------------------------------------------------
(* One call of Bubble.make_request, Bubble.get_object_by_id,                 *)
(* Bubble.update_object or Bubble.create_object (bubble.py)                  *)

\* the operations made of one retry loop of Bubble
BubbleOps == {"Bubble.make_request", "get_object_by_id", "update_object", "create_object"}

\* get_object_by_id: column_id, "_id" by default or the name of another column
ColumnId == IF column_name THEN "email" ELSE "_id"

\* `if column_id == "_id" or "unique_id":` the right operand of `or` is the
\* string literal "unique_id" itself, which is not empty and so truthy
ByPrimaryId == ColumnId = "_id" \/ "unique_id" # ""

\* The operation enters its retry loop. make_request is called with a
\* unique_id or, if bubble_id is 0 (None), as a list query; get_object_by_id
\* calls make_request(unique_id = unique_id) if ByPrimaryId and otherwise
\* make_request(cursor = 0, limit = 1, constraints = [column_id equals
\* unique_id]); update_object and create_object have the loop in their own
\* body.
BubbleCall ==
    /\ op \in BubbleOps
    /\ op_pc = "running"
    /\ b_pc = "idle"
    /\ by_pc = "start"
    /\ by_pc' = "request"
    /\ IF op = "Bubble.make_request"
       THEN BubbleEnter(0, limit, IF bubble_id = 0 THEN <<>> ELSE <<bubble_id>>)
       ELSE IF op = "create_object"
       THEN BubbleEnter(0, limit, <<>>)
       ELSE IF op = "get_object_by_id" /\ ~ByPrimaryId
       THEN BubbleEnter(0, 1, <<>>)
       ELSE BubbleEnter(0, limit, <<bubble_id>>)
    /\ UNCHANGED <<op, request, mr_pc, nb_retries, sleep_time, call, response, trace,
                   backendVars, pageVars, fullVars, opsVars, thrVars>>
    /\ UNCHANGED <<column_name, fail_if_not_found, bubble_id, conVars, loopVars, max_failures>>

\* mutant: get_object_by_id raises whenever nothing is found
BubbleCallReturn_AlwaysFail ==
    /\ op \in BubbleOps
    /\ by_pc = "request"
    /\ b_pc = "returned"
    /\ b_pc' = "idle"
    /\ by_pc' = "done"
    /\ IF op = "get_object_by_id" /\ Len(get_data_resp.results) = 0
       THEN /\ op_pc' = "raised"
            /\ error' = "ValueError"
            /\ result' = result
       ELSE /\ op_pc' = "returned"
            /\ error' = error
            /\ result' = IF op = "Bubble.make_request" THEN <<get_data_resp.results>>
                         ELSE IF Len(get_data_resp.results) > 0
                         THEN <<get_data_resp.results[1]>>
                         ELSE <<None>>
    /\ UNCHANGED <<op, request, mr_pc, nb_retries, sleep_time, exponential_backoff, call,
                   response, trace, mr_calls, backendVars, kwargs, limit, params_cursor,
                   max_objects, gen_pc, json_resp, buffer, out, fullVars>>
    /\ UNCHANGED <<b_args, n_retries, base_wait_time, retry_index, break_while, resp,
                   no_resp_error, pending, get_data_resp, detail>>
    /\ UNCHANGED <<ids, d_args, del_pc, variant, api_token, fields, thrVars>>
    /\ UNCHANGED <<column_name, fail_if_not_found, bubble_id, conVars, loopVars, max_failures>>

\* The retry loop returned. make_request returns its GetDataResp, whose
\* results are kept; update_object returns unique_id and create_object the
\* new id (None if the body has none); get_object_by_id goes on:
\* ValueError if fail_if_not_found and len(results) == 0, otherwise
\* results[0] if len(results) > 0 else None (remaining is 0 for a unique_id,
\* so fail_if_multiple_results changes nothing).
BubbleCallReturn ==
    /\ op \in BubbleOps
    /\ by_pc = "request"
    /\ b_pc = "returned"
    /\ b_pc' = "idle"
    /\ by_pc' = "done"
    /\ IF op = "get_object_by_id" /\ fail_if_not_found /\ Len(get_data_resp.results) = 0
       THEN /\ op_pc' = "raised"
            /\ error' = "ValueError"
            /\ result' = result
       ELSE /\ op_pc' = "returned"
            /\ error' = error
            /\ result' = IF op = "Bubble.make_request" THEN <<get_data_resp.results>>
                         ELSE IF Len(get_data_resp.results) > 0
                         THEN <<get_data_resp.results[1]>>
                         ELSE <<None>>
    /\ UNCHANGED <<op, request, mr_pc, nb_retries, sleep_time, exponential_backoff, call,
                   response, trace, mr_calls, backendVars, kwargs, limit, params_cursor,
                   max_objects, gen_pc, json_resp, buffer, out, fullVars>>
    /\ UNCHANGED <<b_args, n_retries, base_wait_time, retry_index, break_while, resp,
                   no_resp_error, pending, get_data_resp, detail>>
    /\ UNCHANGED <<ids, d_args, del_pc, variant, api_token, fields, thrVars>>
    /\ UNCHANGED <<column_name, fail_if_not_found, bubble_id, conVars, loopVars, max_failures>>

\* an exception leaves the retry loop and the operation
BubbleCallRaise ==
    /\ op \in BubbleOps
    /\ by_pc \in {"start", "request"}
    /\ b_pc = "raised"
    /\ b_pc' = "idle"
    /\ by_pc' = "done"
    /\ op_pc' = "raised"
    /\ UNCHANGED <<op, mrVars, trace, mr_calls, backendVars, kwargs, limit, params_cursor,
                   max_objects, gen_pc, json_resp, buffer, out, fullVars>>
    /\ UNCHANGED <<b_args, n_retries, base_wait_time, retry_index, break_while, resp,
                   no_resp_error, pending, get_data_resp, detail>>
    /\ UNCHANGED <<opsVars, thrVars>>
    /\ UNCHANGED <<column_name, fail_if_not_found, bubble_id, conVars, loopVars, max_failures>>

----------------------------------------------------------------------------
(* Bubble.make_full_request with n_threads >= 1 and no path_to_file: the    *)
(* main thread, and the worker threads that run Bubble.make_request through *)
(* the decorator save_result_in_dict                                        *)

\* no thread has been created
ThreadsIdle ==
    /\ n_threads = 0
    /\ n_items = 0
    /\ cur_b = 0
    /\ cur_t = 0
    /\ full_pc = "none"
    /\ threads = <<>>
    /\ result_dict = <<>>

\* no lookup by id is in progress
----------------------------------------------------------------------------
(* Constraint (constraint.py), built directly or by a method of Field *)

MaxListLen == 2

\* Python values given as the value of a constraint: None, strings, ints,
\* bools, lists (by their length), dates and datetimes (by their day and hour)
PyNone == [type |-> "NoneType", s |-> "", n |-> 0, h |-> 0]
PyValues ==
    {PyNone}
    \cup [type : {"str"}, s : {"", "value", "0"}, n : {0}, h : {0}]
    \cup [type : {"int"}, s : {""}, n : {0, 8, 10}, h : {0}]
    \cup [type : {"bool"}, s : {""}, n : {0, 1}, h : {0}]
    \cup [type : {"list"}, s : {""}, n : 0..MaxListLen, h : {0}]
    \cup [type : {"date"}, s : {""}, n : {1, 31}, h : {0}]
    \cup [type : {"datetime"}, s : {""}, n : {1, 31}, h : {0, 23}]

\* the constraint types the methods of Field build
ConstraintTypes ==
    {"equals", "not equal", "is_empty", "is_not_empty", "text contains",
     "not text contains", "greater than", "less than", "in", "not in", "contains",
     "not contains", "geographic_search"}

Digit(d) ==
    CASE d = 0 -> "0" [] d = 1 -> "1" [] d = 2 -> "2" [] d = 3 -> "3" [] d = 4 -> "4"
      [] d = 5 -> "5" [] d = 6 -> "6" [] d = 7 -> "7" [] d = 8 -> "8" [] d = 9 -> "9"

\* str(n) of a natural number
RECURSIVE StrNat(_)
StrNat(n) == IF n < 10 THEN Digit(n) ELSE StrNat(n \div 10) \o Digit(n % 10)

\* %d, %H: two digits
TwoDigits(n) == Digit(n \div 10) \o Digit(n % 10)

\* format_constraint_value: None for None, the string itself, str(value) of
\* a Number (bool is one: "True" / "False"), the strftime of a datetime or a
\* date (of January 2024 here), and None (no return) for anything else
\* (<<>> stands for None, <<s>> for the string s)
format_constraint_value(value) ==
    IF value.type = "NoneType" THEN <<>>
    ELSE IF value.type = "str" THEN <<value.s>>
    ELSE IF value.type = "bool" THEN <<IF value.n = 1 THEN "True" ELSE "False">>
    ELSE IF value.type = "int" THEN <<StrNat(value.n)>>
    ELSE IF value.type = "datetime"
    THEN <<"2024-01-" \o TwoDigits(value.n) \o "T" \o TwoDigits(value.h)
           \o ":00:00.000000Z">>
    ELSE IF value.type = "date" THEN <<"2024-01-" \o TwoDigits(value.n)>>
    ELSE <<>>

\* `if self.value:` None and the empty string are falsy
Truthy(v) == v # <<>> /\ v[1] # ""

\* Constraint.__init__
ConstraintInit ==
    /\ op = "to_dict"
    /\ c_self = <<>>
    /\ c_self' = <<[key |-> c_args.key, constraint_type |-> c_args.constraint_type,
                    value |-> format_constraint_value(c_args.value)]>>
    /\ UNCHANGED <<c_args, res, f_call, f_self, loopVars>>
    /\ UNCHANGED <<column_name, fail_if_not_found, bubble_id, by_pc, max_failures>>
    /\ UNCHANGED <<op, mrVars, trace, mr_calls, backendVars, pageVars, bubbleVars,
                   opsVars, thrVars>>

\* Constraint.to_dict
ToDict ==
    /\ op \in {"to_dict", "field"}
    /\ c_self # <<>>
    /\ res = <<>>
    /\ res' = IF Truthy(c_self[1].value)
              THEN <<[key |-> c_self[1].key,
                      constraint_type |-> c_self[1].constraint_type,
                      value |-> c_self[1].value[1]]>>
              ELSE <<[key |-> c_self[1].key,
                      constraint_type |-> c_self[1].constraint_type]>>
    /\ UNCHANGED <<c_args, c_self, f_call, f_self, loopVars>>
    /\ UNCHANGED <<column_name, fail_if_not_found, bubble_id, by_pc, max_failures>>
    /\ UNCHANGED <<op, mrVars, trace, mr_calls, backendVars, pageVars, bubbleVars,
                   opsVars, thrVars>>

NoConstraint == [key |-> "", constraint_type |-> "", value |-> PyNone]

\* the letters, for str.lower
UpperCase == <<"A", "B", "C", "D", "E", "F", "G", "H", "I", "J", "K", "L", "M", "N", "O",
               "P", "Q", "R", "S", "T", "U", "V", "W", "X", "Y", "Z">>
LowerCase == <<"a", "b", "c", "d", "e", "f", "g", "h", "i", "j", "k", "l", "m", "n", "o",
               "p", "q", "r", "s", "t", "u", "v", "w", "x", "y", "z">>
Lower(c) ==
    IF \E i \in 1..Len(UpperCase) : UpperCase[i] = c
    THEN LowerCase[CHOOSE i \in 1..Len(UpperCase) : UpperCase[i] = c]
    ELSE c

\* field names, as the sequence of their characters: "key", "Key",
\* "Rental Unit"
FieldNames ==
    {<<"k", "e", "y">>, <<"K", "e", "y">>,
     <<"R", "e", "n", "t", "a", "l", " ", "U", "n", "i", "t">>}

\* Field.format_field_name: field_name.lower().replace(" ", "")
format_field_name(field_name) ==
    SelectSeq([i \in 1..Len(field_name) |-> Lower(field_name[i])], LAMBDA c : c # " ")

\* the methods of Field that take an operand, those that take none, and the
\* comparison operators
FieldValueMethods ==
    {"equals", "not_equals", "text_contains", "not_text_contains", "greater_than",
     "less_than", "is_in", "is_not_in", "contains", "not_contains", "geographic_search"}
FieldUnaryMethods == {"is_empty", "is_not_empty"}
FieldOperators == {"==", "!=", ">", "<", ">=", "<="}

\* the method of Field that runs for the expression e: __eq__ = equals,
\* __ne__ = not_equals, __gt__ = greater_than, __lt__ = less_than. With the
\* Field on the right (e.reversed) the operand's own comparison returns
\* NotImplemented and Python calls the reflected method of the Field.
FieldMethod(e) ==
    IF e.expr = "==" THEN "equals"
    ELSE IF e.expr = "!=" THEN "not_equals"
    ELSE IF e.expr = ">" THEN (IF e.reversed THEN "less_than" ELSE "greater_than")
    ELSE IF e.expr = "<" THEN (IF e.reversed THEN "greater_than" ELSE "less_than")
    ELSE IF e.expr = ">=" THEN (IF e.reversed THEN "__le__" ELSE "__ge__")
    ELSE IF e.expr = "<=" THEN (IF e.reversed THEN "__ge__" ELSE "__le__")
    ELSE e.expr

\* the constraint_type each method of Field passes to Constraint
FieldConstraintType(m) ==
    CASE m = "equals" -> "equals"
      [] m = "not_equals" -> "not equal"
      [] m = "is_empty" -> "is_empty"
      [] m = "is_not_empty" -> "is_not_empty"
      [] m = "text_contains" -> "text contains"
      [] m = "not_text_contains" -> "not text contains"
      [] m = "greater_than" -> "greater than"
      [] m = "less_than" -> "less than"
      [] m = "is_in" -> "in"
      [] m = "is_not_in" -> "not in"
      [] m = "contains" -> "contains"
      [] m = "not_contains" -> "not contains"
      [] m = "geographic_search" -> "geographic_search"

\* Field.__init__
FieldInit ==
    /\ op = "field"
    /\ f_self = <<>>
    /\ f_self' = <<format_field_name(f_call.name)>>
    /\ UNCHANGED <<c_args, c_self, res, f_call, loopVars>>
    /\ UNCHANGED <<column_name, fail_if_not_found, bubble_id, by_pc, max_failures>>
    /\ UNCHANGED <<op, mrVars, trace, mr_calls, backendVars, pageVars, bubbleVars,
                   opsVars, thrVars>>

\* a method of Field, called by name or through a comparison: __ge__ and
\* __le__ raise NotImplementedError, the others return
\* Constraint(self.field_name, constraint_type, value)
FieldCall ==
    /\ op = "field"
    /\ op_pc = "running"
    /\ f_self # <<>>
    /\ c_self = <<>>
    /\ IF FieldMethod(f_call) \in {"__ge__", "__le__"}
       THEN /\ op_pc' = "raised"
            /\ error' = "NotImplementedError"
            /\ UNCHANGED <<c_args, c_self>>
       ELSE /\ c_args' = [key |-> f_self[1],
                          constraint_type |-> FieldConstraintType(FieldMethod(f_call)),
                          value |-> f_call.value]
            /\ c_self' = <<[key |-> f_self[1],
                            constraint_type |-> FieldConstraintType(FieldMethod(f_call)),
                            value |-> format_constraint_value(f_call.value)]>>
            /\ UNCHANGED <<op_pc, error>>
    /\ UNCHANGED <<res, f_call, f_self, loopVars>>
    /\ UNCHANGED <<column_name, fail_if_not_found, bubble_id, by_pc, max_failures>>
    /\ UNCHANGED <<mr_pc, nb_retries, sleep_time, exponential_backoff, call, response,
                   request>>
    /\ UNCHANGED <<kwargs, limit, params_cursor, max_objects, gen_pc, json_resp, buffer,
                   out>>
    /\ UNCHANGED <<op, trace, mr_calls, backendVars, bubbleVars, opsVars, thrVars>>

NoField == [name |-> <<>>, expr |-> "none", reversed |-> FALSE, value |-> PyNone]

ConIdle ==
    /\ c_args = NoConstraint
    /\ c_self = <<>>
    /\ res = <<>>
    /\ f_call = NoField
    /\ f_self = <<>>

----------------------------------------------------------------------------
(* Operations of the async BubbleClient scheduled on one event loop *)

MaxTasks == 2

\* operations that await self.make_request once
AsyncOps == {"get_by_id", "create_object", "delete_by_id"}

\* a task that has not run yet
NewTask(o, n) == [op |-> o, nb_retries |-> n, pc |-> "ready", error |-> "none",
                  requests |-> 0]

\* the event loop runs the callbacks of its ready queue in the order they were
\* scheduled: the first task that has not run gets the loop
LoopRun ==
    /\ op = "gather"
    /\ running = 0
    /\ \E t \in 1..Len(tasks) :
          /\ tasks[t].pc = "ready"
          /\ \A u \in 1..(t - 1) : tasks[u].pc # "ready"
          /\ running' = t
          /\ tasks' = [tasks EXCEPT ![t].pc = "make_request"]
    /\ UNCHANGED conVars
    /\ UNCHANGED <<column_name, fail_if_not_found, bubble_id, by_pc, max_failures>>
    /\ UNCHANGED <<op, mrVars, trace, mr_calls, backendVars, pageVars, bubbleVars,
                   opsVars, thrVars>>

\* the running task enters make_request: `async with httpx.AsyncClient as
\* client` is given the class, which is no asynchronous context manager, and
\* raises (AttributeError or TypeError, by the version of Python, the same for
\* every task of a run) before client.request is reached; the exception ends
\* the operation and the task
AsyncMakeRequest ==
    /\ op = "gather"
    /\ running # 0
    /\ tasks[running].pc = "make_request"
    /\ \E x \in AsyncWithErrors :
          /\ \A u \in 1..Len(tasks) : tasks[u].pc = "done" => tasks[u].error = x
          /\ tasks' = [tasks EXCEPT ![running].pc = "done", ![running].error = x]
    /\ running' = 0
    /\ UNCHANGED conVars
    /\ UNCHANGED <<column_name, fail_if_not_found, bubble_id, by_pc, max_failures>>
    /\ UNCHANGED <<op, mrVars, trace, mr_calls, backendVars, pageVars, bubbleVars,
                   opsVars, thrVars>>

LoopIdle ==
    /\ tasks = <<>>
    /\ running = 0

ExtIdle ==
    /\ column_name = FALSE
    /\ fail_if_not_found = FALSE
    /\ bubble_id = 0
    /\ by_pc = "none"
    /\ ConIdle
    /\ LoopIdle
    /\ max_failures = MaxPageFailures

\* mutant: one page more than needed when limit divides n_items
n_total_threads_ExtraPage == n_items \div limit + 1

\* n_total_threads = (n_items - 1) // limit + 1
n_total_threads == (n_items - 1) \div limit + 1
\* n_batches = (n_total_threads - 1) // n_threads + 1
n_batches == (n_total_threads - 1) \div n_threads + 1
\* n_remaining_threads = n_total_threads - (b * n_threads)
n_remaining_threads == n_total_threads - (cur_b * n_threads)
\* the number of threads of batch b: min(n_threads, n_remaining_threads)
BatchSize == Min(n_threads, n_remaining_threads)
\* the key of the thread t of batch b (the code uses its decimal string)
Slot(bb, tt) == bb * n_threads + tt

\* What one pass through the try block of Bubble.make_request does with the
\* response r (unique_id u): break_while, what leaves the block (a return, an
\* exception or nothing) and the GetDataResp returned.
HandleOutcome(r, u) ==
    IF r.status < 400
    THEN IF r.body = "not_json"
         THEN [break_while |-> TRUE, pending |-> "raise", data |-> NoData]
         ELSE IF r.body = "array"
         THEN [break_while |-> TRUE, pending |-> "none", data |-> NoData]
         ELSE [break_while |-> TRUE, pending |-> "return", data |-> ParsedData(r, u)]
    ELSE IF r.status \in {400, 404}
    THEN IF r.status = 404 /\ u # <<>>
         THEN [break_while |-> TRUE, pending |-> "return", data |-> NoData]
         ELSE IF r.body \in {"not_json", "keyed"}
         THEN [break_while |-> TRUE, pending |-> "raise", data |-> NoData]
         ELSE [break_while |-> TRUE, pending |-> "none", data |-> NoData]
    ELSE IF r.status = 401
    THEN IF r.body \in {"not_json", "keyed"}
         THEN [break_while |-> TRUE, pending |-> "raise", data |-> NoData]
         ELSE [break_while |-> TRUE, pending |-> "none", data |-> NoData]
    ELSE [break_while |-> FALSE, pending |-> "none", data |-> NoData]

\* attempts of the worker threads that the transport has failed so far
RECURSIVE SumFailed(_)
SumFailed(ks) ==
    IF ks = {} THEN 0
    ELSE LET k == CHOOSE x \in ks : TRUE
         IN  threads[k].failed + SumFailed(ks \ {k})

\* whether the transport may fail the next request of a worker thread
ThreadMayFail == NumFailures + SumFailed(DOMAIN threads) < MaxPageFailures

\* the threads that have been started and have not ended
Alive == {k \in DOMAIN threads : threads[k].pc # "finished"}

\* n_items = self.count_items(...): make_request(cursor = 0, limit = 1)
ThreadedCount ==
    /\ op = "make_full_request"
    /\ n_threads >= 1
    /\ op_pc = "running"
    /\ full_pc = "start"
    /\ b_pc = "idle"
    /\ full_pc' = "count"
    /\ BubbleEnter(0, 1, <<>>)
    /\ UNCHANGED <<op, mr_pc, nb_retries, sleep_time, call, response, request, trace,
                   backendVars, pageVars, fullVars, opsVars>>
    /\ UNCHANGED <<n_threads, n_items, cur_b, cur_t, threads, result_dict>>
    /\ UNCHANGED extVars

\* count_items returns len(results) + remaining, or make_request raised; the
\* for loop over the batches begins
ThreadedCounted ==
    /\ op = "make_full_request"
    /\ full_pc = "count"
    /\ b_pc \in {"returned", "raised"}
    /\ IF b_pc = "returned"
       THEN /\ n_items' = Len(get_data_resp.results) + get_data_resp.remaining
            /\ cur_b' = 0
            /\ full_pc' = "batch"
            /\ b_pc' = "idle"
            /\ op_pc' = op_pc
       ELSE /\ op_pc' = "raised"
            /\ full_pc' = "done"
            /\ UNCHANGED <<n_items, cur_b, b_pc>>
    /\ UNCHANGED <<op, mrVars, trace, mr_calls, backendVars, kwargs, limit, params_cursor,
                   max_objects, gen_pc, json_resp, buffer, out, fullVars, opsVars>>
    /\ UNCHANGED <<b_args, n_retries, base_wait_time, retry_index, break_while, resp,
                   no_resp_error, pending, get_data_resp, detail>>
    /\ UNCHANGED <<n_threads, cur_t, threads, result_dict>>
    /\ UNCHANGED extVars

\* for b in range(n_batches): threads = [], result_dict = dict(); after the
\* last batch GetFullDataResp(results = full_results) is returned
ThreadedBatch ==
    /\ op = "make_full_request"
    /\ op_pc = "running"
    /\ full_pc = "batch"
    /\ IF cur_b < n_batches
       THEN /\ result_dict' = <<>>
            /\ cur_t' = 0
            /\ full_pc' = "spawn"
            /\ op_pc' = op_pc
       ELSE /\ op_pc' = "returned"
            /\ full_pc' = "done"
            /\ UNCHANGED <<result_dict, cur_t>>
    /\ UNCHANGED <<op, mrVars, trace, mr_calls, backendVars, kwargs, limit, params_cursor,
                   max_objects, gen_pc, json_resp, buffer, out, bubbleVars, opsVars>>
    /\ UNCHANGED <<n_threads, n_items, cur_b, threads>>
    /\ UNCHANGED extVars

\* the frame of a worker thread entering make_request(cursor = c, ...), which
\* first checks its arguments
NewThread(c) ==
    [pc |-> IF kwargs.exponential_backoff /\ kwargs.sleep_time <= 1 THEN "raised" ELSE "try",
     cursor |-> c, retry_index |-> 0, resp |-> NoResponse, data |-> NoData, failed |-> 0]

\* one pass of "for t in range(min(n_threads, n_remaining_threads))":
\* thread.start() for the key b * n_threads + t, then cursor += limit
ThreadStart ==
    /\ op = "make_full_request"
    /\ full_pc = "spawn"
    /\ cur_t < BatchSize
    /\ threads' = (Slot(cur_b, cur_t) :> NewThread(cursor)) @@ threads
    /\ cursor' = cursor + limit
    /\ cur_t' = cur_t + 1
    /\ UNCHANGED <<op, mrVars, trace, mr_calls, backendVars, pageVars, bmrVars, remaining,
                   full_results, opsVars>>
    /\ UNCHANGED <<n_threads, n_items, cur_b, full_pc, result_dict>>
    /\ UNCHANGED extVars

\* one pass of the while loop of make_request in the worker thread of key k:
\* the request, the branches on the response and the finally clause (the
\* sleep before another attempt takes time and changes nothing); resp is a
\* local that no path reads again unless make_request returns, so it is kept
\* only then
ThreadAttempt(k) ==
    /\ k \in DOMAIN threads
    /\ threads[k].pc = "try"
    /\ LET w == threads[k]
           a == [cursor |-> w.cursor, limit |-> limit, unique_id |-> <<>>]
           again == w.retry_index + 1 <= kwargs.nb_retries
       IN  \/ \E r \in BubbleResponses(a) :
                /\ (r.status = 200 /\ r.body = "keyed") \/ ThreadMayFail
                /\ r.body \in BodyShapes(r.status)
                /\ LET h == HandleOutcome(r, <<>>)
                   IN  threads' = [threads EXCEPT ![k] =
                           [pc |-> IF h.pending = "return" THEN "returned"
                                   ELSE IF h.pending = "raise" THEN "raised"
                                   ELSE IF again /\ ~h.break_while THEN "try"
                                   ELSE "raised",
                            cursor |-> w.cursor,
                            retry_index |-> w.retry_index + 1,
                            resp |-> IF h.pending = "return" THEN r ELSE NoResponse,
                            data |-> h.data,
                            failed |-> w.failed
                                + (IF r.status = 200 /\ r.body = "keyed" THEN 0 ELSE 1)]]
           \/ \E x \in {"ConnectionError", "ReadTimeout"} :
                /\ ThreadMayFail
                /\ threads' = [threads EXCEPT ![k] =
                       [w EXCEPT !.pc = IF again THEN "try" ELSE "raised",
                                 !.retry_index = w.retry_index + 1,
                                 !.failed = w.failed + 1]]
    /\ UNCHANGED <<op, mrVars, trace, mr_calls, backendVars, pageVars, bubbleVars, opsVars>>
    /\ UNCHANGED <<n_threads, n_items, cur_b, cur_t, full_pc, result_dict>>
    /\ UNCHANGED extVars

\* mutant: every thread of a batch saves under the key of the batch's first thread
ThreadSave_BatchKey(k) ==
    /\ k \in DOMAIN threads
    /\ threads[k].pc = "returned"
    /\ result_dict' = ((k - (k % n_threads)) :> threads[k].data) @@ result_dict
    /\ threads' = [threads EXCEPT ![k].pc = "exiting"]
    /\ UNCHANGED <<op, mrVars, trace, mr_calls, backendVars, pageVars, bubbleVars, opsVars>>
    /\ UNCHANGED <<n_threads, n_items, cur_b, cur_t, full_pc>>
    /\ UNCHANGED extVars

\* new_function of save_result_in_dict, after make_request returned:
\* save_in_dict[save_in_key] = result
ThreadSave(k) ==
    /\ k \in DOMAIN threads
    /\ threads[k].pc = "returned"
    /\ result_dict' = (k :> threads[k].data) @@ result_dict
    /\ threads' = [threads EXCEPT ![k].pc = "exiting"]
    /\ UNCHANGED <<op, mrVars, trace, mr_calls, backendVars, pageVars, bubbleVars, opsVars>>
    /\ UNCHANGED <<n_threads, n_items, cur_b, cur_t, full_pc>>
    /\ UNCHANGED extVars

\* the thread ends: new_function returned, or an exception left make_request
ThreadExit(k) ==
    /\ k \in DOMAIN threads
    /\ threads[k].pc \in {"exiting", "raised"}
    /\ threads' = [threads EXCEPT ![k].pc = "finished"]
    /\ UNCHANGED <<op, mrVars, trace, mr_calls, backendVars, pageVars, bubbleVars, opsVars>>
    /\ UNCHANGED <<n_threads, n_items, cur_b, cur_t, full_pc, result_dict>>
    /\ UNCHANGED extVars

\* mutant: the main thread goes on without joining the threads
ThreadJoin_NoWait ==
    /\ op = "make_full_request"
    /\ full_pc = "spawn"
    /\ cur_t = BatchSize
    /\ full_pc' = "collect"
    /\ cur_t' = 0
    /\ UNCHANGED <<op, mrVars, trace, mr_calls, backendVars, pageVars, bubbleVars, opsVars>>
    /\ UNCHANGED <<n_threads, n_items, cur_b, threads, result_dict>>
    /\ UNCHANGED extVars

\* "for thread in threads: thread.join()": the main thread goes on once every
\* thread of the batch has ended
ThreadJoin ==
    /\ op = "make_full_request"
    /\ full_pc = "spawn"
    /\ cur_t = BatchSize
    /\ \A tt \in 0..(BatchSize - 1) : threads[Slot(cur_b, tt)].pc = "finished"
    /\ full_pc' = "collect"
    /\ cur_t' = 0
    /\ UNCHANGED <<op, mrVars, trace, mr_calls, backendVars, pageVars, bubbleVars, opsVars>>
    /\ UNCHANGED <<n_threads, n_items, cur_b, threads, result_dict>>
    /\ UNCHANGED extVars

\* mutant: a key missing from result_dict is skipped instead of raising
ThreadedCollect_SkipMissing ==
    /\ op = "make_full_request"
    /\ op_pc = "running"
    /\ full_pc = "collect"
    /\ IF cur_t < BatchSize
       THEN /\ full_results' =
                  IF Slot(cur_b, cur_t) \notin DOMAIN result_dict THEN full_results
                  ELSE full_results \o result_dict[Slot(cur_b, cur_t)].results
            /\ cur_t' = cur_t + 1
            /\ UNCHANGED <<op_pc, error, full_pc, cur_b>>
       ELSE /\ cur_b' = cur_b + 1
            /\ full_pc' = "batch"
            /\ UNCHANGED <<op_pc, error, full_results, cur_t>>
    /\ UNCHANGED <<op, mr_pc, nb_retries, sleep_time, exponential_backoff, call, response,
                   request, trace, mr_calls, backendVars, kwargs, limit, params_cursor,
                   max_objects, gen_pc, json_resp, buffer, out, bmrVars, cursor, remaining,
                   opsVars>>
    /\ UNCHANGED <<n_threads, n_items, threads, result_dict>>
    /\ UNCHANGED extVars

\* mutant: the results of a batch are collected from the last key to the first
ThreadedCollect_Reversed ==
    /\ op = "make_full_request"
    /\ op_pc = "running"
    /\ full_pc = "collect"
    /\ IF cur_t < BatchSize
       THEN IF Slot(cur_b, BatchSize - 1 - cur_t) \notin DOMAIN result_dict
            THEN /\ op_pc' = "raised"
                 /\ error' = "ValueError"
                 /\ full_pc' = "done"
                 /\ UNCHANGED <<full_results, cur_t, cur_b>>
            ELSE /\ full_results' =
                        full_results \o result_dict[Slot(cur_b, BatchSize - 1 - cur_t)].results
                 /\ cur_t' = cur_t + 1
                 /\ UNCHANGED <<op_pc, error, full_pc, cur_b>>
       ELSE /\ cur_b' = cur_b + 1
            /\ full_pc' = "batch"
            /\ UNCHANGED <<op_pc, error, full_results, cur_t>>
    /\ UNCHANGED <<op, mr_pc, nb_retries, sleep_time, exponential_backoff, call, response,
                   request, trace, mr_calls, backendVars, kwargs, limit, params_cursor,
                   max_objects, gen_pc, json_resp, buffer, out, bmrVars, cursor, remaining,
                   opsVars>>
    /\ UNCHANGED <<n_threads, n_items, threads, result_dict>>
    /\ UNCHANGED extVars

\* one pass of the second "for t in range(...)": get_data_resp =
\* result_dict.get(str(b * n_threads + t)); ValueError if it is None, otherwise
\* full_results.extend(get_data_resp.results); after the last pass the next batch
ThreadedCollect ==
    /\ op = "make_full_request"
    /\ op_pc = "running"
    /\ full_pc = "collect"
    /\ IF cur_t < BatchSize
       THEN IF Slot(cur_b, cur_t) \notin DOMAIN result_dict
            THEN /\ op_pc' = "raised"
                 /\ error' = "ValueError"
                 /\ full_pc' = "done"
                 /\ UNCHANGED <<full_results, cur_t, cur_b>>
            ELSE /\ full_results' = full_results \o result_dict[Slot(cur_b, cur_t)].results
                 /\ cur_t' = cur_t + 1
                 /\ UNCHANGED <<op_pc, error, full_pc, cur_b>>
       ELSE /\ cur_b' = cur_b + 1
            /\ full_pc' = "batch"
            /\ UNCHANGED <<op_pc, error, full_results, cur_t>>
    /\ UNCHANGED <<op, mr_pc, nb_retries, sleep_time, exponential_backoff, call, response,
                   request, trace, mr_calls, backendVars, kwargs, limit, params_cursor,
                   max_objects, gen_pc, json_resp, buffer, out, bmrVars, cursor, remaining,
                   opsVars>>
    /\ UNCHANGED <<n_threads, n_items, threads, result_dict>>
    /\ UNCHANGED extVars

----------------------------------------------------------------------------
(* One call of make_request by a caller (get_by_id, create_object, ...) *)

InitRetry ==
    /\ ExtIdle
    /\ op = "make_request"
    /\ mr_pc = "request"
    /\ nb_retries \in 0..MaxRetries
    /\ sleep_time \in 0..MaxSleep
    /\ exponential_backoff \in BOOLEAN
    /\ call = [nb_retries |-> nb_retries, sleep_time |-> sleep_time,
               exponential_backoff |-> exponential_backoff]
    /\ response = NoResponse
    /\ error = "none"
    /\ trace = <<>>
    /\ mr_calls = 1
    /\ n_records = 0
    /\ page_cap = 1
    /\ kwargs = call
    /\ limit = 1
    /\ params_cursor = 0
    /\ max_objects = <<>>
    /\ op_pc = "running"
    /\ gen_pc = "none"
    /\ json_resp = NoJson
    /\ buffer = <<>>
    /\ out = <<>>
    /\ BubbleIdle
    /\ cursor = 0
    /\ remaining = 0
    /\ full_results = <<>>
    /\ table = FirstRecords(n_records)
    /\ request = NoRequest
    /\ ids = <<>>
    /\ d_args = NoArgs
    /\ del_pc = "none"
    /\ variant = "client"
    /\ api_token = TRUE
    /\ fields = <<>>
    /\ result = <<>>
    /\ ThreadsIdle

NextRetry ==
    \/ MakeRequestSend
    \/ MakeRequestClassify
    \/ MakeRequestSleepRetry

SpecRetry == InitRetry /\ [][NextRetry]_vars

----------------------------------------------------------------------------
(* A paginated read of a stable backend *)

InitPage ==
    /\ ExtIdle
    /\ op \in {"get_objects", "make_full_request"}
    /\ n_records \in 0..MaxRecords
    /\ page_cap \in 1..MaxLimit
    /\ limit \in 1..MaxLimit
    /\ kwargs \in [nb_retries : 0..MaxPageRetries, sleep_time : {2},
                   exponential_backoff : BOOLEAN]
    /\ max_objects \in IF op = "get_objects"
                       THEN {<<>>} \cup {<<k>> : k \in 0..MaxObjects}
                       ELSE {<<>>}
    /\ params_cursor = 0
    /\ op_pc = "running"
    /\ gen_pc = IF op = "get_objects" THEN "start" ELSE "none"
    /\ BubbleIdle
    /\ cursor = 0
    /\ remaining = 1
    /\ full_results = <<>>
    /\ json_resp = NoJson
    /\ buffer = <<>>
    /\ out = <<>>
    /\ mr_pc = "idle"
    /\ nb_retries = 0
    /\ sleep_time = 0
    /\ exponential_backoff = FALSE
    /\ call = [nb_retries |-> 0, sleep_time |-> 0, exponential_backoff |-> FALSE]
    /\ response = NoResponse
    /\ error = "none"
    /\ trace = <<>>
    /\ mr_calls = 0
    /\ table = FirstRecords(n_records)
    /\ request = NoRequest
    /\ ids = <<>>
    /\ d_args = NoArgs
    /\ del_pc = "none"
    /\ variant = "client"
    /\ api_token = TRUE
    /\ fields = <<>>
    /\ result = <<>>
    /\ ThreadsIdle

NextPage ==
    \/ IsliceNext
    \/ IsliceStop
    \/ GenReceive
    \/ GenRaise
    \/ GenYield
    \/ GenAdvance
    \/ MakeRequestSend
    \/ MakeRequestClassify
    \/ MakeRequestSleepRetry
    \/ FullLoop
    \/ FullReceive
    \/ FullReturn
    \/ FullRaise
    \/ BubbleTry
    \/ BubbleHandle
    \/ BubbleFinally
    \/ BubbleExhausted

SpecPage == InitPage /\ [][NextPage]_vars

----------------------------------------------------------------------------
(* States in which a part of the library is not in use *)

\* no make_request call of BubbleClient is in progress
MakeRequestIdle ==
    /\ mr_pc = "idle"
    /\ nb_retries = 0
    /\ sleep_time = 0
    /\ exponential_backoff = FALSE
    /\ call = [nb_retries |-> 0, sleep_time |-> 0, exponential_backoff |-> FALSE]
    /\ response = NoResponse
    /\ error = "none"
    /\ request = NoRequest
    /\ trace = <<>>
    /\ mr_calls = 0

\* no generator exists and nothing has been delivered
GenIdle ==
    /\ params_cursor = 0
    /\ max_objects = <<>>
    /\ gen_pc = "none"
    /\ json_resp = NoJson
    /\ buffer = <<>>
    /\ out = <<>>

\* the sequential loop of make_full_request before its first pass
FullIdle ==
    /\ cursor = 0
    /\ remaining = 0
    /\ full_results = <<>>

\* the retry arguments callers pass to a paginated or composite operation
RetryArgs ==
    [nb_retries : 0..MaxPageRetries, sleep_time : {2}, exponential_backoff : BOOLEAN]

\* the sequences over S of length at most n
SeqsUpTo(S, n) == UNION {[1..k -> S] : k \in 0..n}

----------------------------------------------------------------------------
(* A delete operation on a backend nobody else writes to *)

\* the values of the argument bubble_id of delete
BubbleIds ==
    {[kind |-> "None", ids |-> <<>>], [kind |-> "other", ids |-> <<>>]}
    \cup {[kind |-> "str", ids |-> <<i>>] : i \in 1..MaxIds}
    \cup {[kind |-> "list", ids |-> q] : q \in SeqsUpTo(1..MaxIds, MaxIds)}

\* the call reaches delete_objects, and so get_objects_gen
ReachesDeleteObjects ==
    \/ op = "delete_all"
    \/ d_args.bubble_id.kind = "None" /\ d_args.constraints # "None"

\* delete(type, bubble_id, constraints) or delete_all(type) is called. The
\* table holds the n_records records that match the constraints (all records,
\* for delete_all). limit is the page size that get_objects_gen asks for when
\* delete_objects calls it (its default, which the caller cannot change), on
\* the scale of the model's tables.
InitDelete ==
    /\ ExtIdle
    /\ op \in {"delete", "delete_all"}
    /\ d_args \in IF op = "delete_all"
                  THEN {[bubble_id |-> [kind |-> "None", ids |-> <<>>], constraints |-> "list"]}
                  ELSE [bubble_id : BubbleIds, constraints : {"None", "list"}]
    /\ n_records \in 0..MaxRecords
    /\ page_cap \in IF ReachesDeleteObjects THEN 1..MaxLimit ELSE {1}
    /\ limit \in IF ReachesDeleteObjects THEN 1..MaxLimit ELSE {1}
    /\ kwargs \in RetryArgs
    /\ table = FirstRecords(n_records)
    /\ op_pc = "running"
    /\ del_pc = "dispatch"
    /\ ids = <<>>
    /\ variant = "client"
    /\ api_token = TRUE
    /\ fields = <<>>
    /\ result = <<>>
    /\ MakeRequestIdle
    /\ GenIdle
    /\ BubbleIdle
    /\ FullIdle
    /\ ThreadsIdle

NextDelete ==
    \/ Delete
    \/ DeleteAll
    \/ DeleteByIdsNext
    \/ DeleteById
    \/ DeleteReturned
    \/ DeleteRaised
    \/ GenReceive
    \/ GenRaise
    \/ GenYield
    \/ GenAdvance
    \/ MakeRequestSend
    \/ MakeRequestClassify
    \/ MakeRequestSleepRetry

SpecDelete == InitDelete /\ [][NextDelete]_vars

----------------------------------------------------------------------------
(* A count_objects or create_bulk call *)

InitCall ==
    /\ ExtIdle
    /\ op \in {"count_objects", "create_bulk"}
    /\ variant \in {"client", "wrapper"}
    /\ api_token \in BOOLEAN
    /\ fields \in IF op = "create_bulk" THEN SeqsUpTo(1..MaxBulk, MaxBulk) ELSE {<<>>}
    /\ n_records \in IF op = "count_objects" THEN 0..MaxRecords ELSE {0}
    /\ page_cap \in IF op = "count_objects" THEN 1..MaxLimit ELSE {1}
    /\ kwargs \in RetryArgs
    /\ table = FirstRecords(n_records)
    /\ limit = 0
    /\ op_pc = "running"
    /\ del_pc = "none"
    /\ ids = <<>>
    /\ d_args = NoArgs
    /\ result = <<>>
    /\ MakeRequestIdle
    /\ GenIdle
    /\ BubbleIdle
    /\ FullIdle
    /\ ThreadsIdle

NextCall ==
    \/ CountObjects
    \/ CountReturn
    \/ CreateBulk
    \/ BulkReturn
    \/ CallRaise
    \/ MakeRequestSend
    \/ MakeRequestClassify
    \/ MakeRequestSleepRetry

SpecCall == InitCall /\ [][NextCall]_vars

----------------------------------------------------------------------------
(* Bubble.make_full_request with worker threads, on a stable backend *)

\* The backend serves either single-record pages or pages as long as asked
\* for. The worker threads use sleep_time and nb_retries only; the backoff
\* schedule of make_request is the subject of SpecPage.
InitThreads ==
    /\ ExtIdle
    /\ op = "make_full_request"
    /\ n_threads \in 1..MaxThreads
    /\ n_records \in 0..MaxRecords
    /\ page_cap \in {1, MaxLimit}
    /\ limit \in 1..MaxLimit
    /\ kwargs \in {a \in RetryArgs : ~a.exponential_backoff}
    /\ table = FirstRecords(n_records)
    /\ op_pc = "running"
    /\ full_pc = "start"
    /\ n_items = 0
    /\ cur_b = 0
    /\ cur_t = 0
    /\ threads = <<>>
    /\ result_dict = <<>>
    /\ del_pc = "none"
    /\ ids = <<>>
    /\ d_args = NoArgs
    /\ variant = "client"
    /\ api_token = TRUE
    /\ fields = <<>>
    /\ result = <<>>
    /\ MakeRequestIdle
    /\ GenIdle
    /\ BubbleIdle
    /\ FullIdle

NextThreads ==
    \/ ThreadedCount
    \/ BubbleTry
    \/ BubbleHandle
    \/ BubbleFinally
    \/ BubbleExhausted
    \/ ThreadedCounted
    \/ ThreadedBatch
    \/ ThreadStart
    \/ \E k \in DOMAIN threads : ThreadAttempt(k)
    \/ \E k \in DOMAIN threads : ThreadSave(k)
    \/ \E k \in DOMAIN threads : ThreadExit(k)
    \/ ThreadJoin
    \/ ThreadedCollect

SpecThreads == InitThreads /\ [][NextThreads]_vars

----------------------------------------------------------------------------
(* One lookup get_by_id, by id or by column, on a backend nobody writes to *)

\* the retry arguments callers pass to a lookup
LookupArgs ==
    [nb_retries : 0..MaxRetries, sleep_time : {2}, exponential_backoff : BOOLEAN]

\* With a column_name the table is the records whose column has the value
\* looked up; without, the record of id i exists iff i <= n_records.
InitLookup ==
    /\ op = "get_by_id"
    /\ variant \in {"client", "async"}
    /\ column_name \in BOOLEAN
    /\ bubble_id \in 1..MaxIds
    /\ fail_if_not_found = FALSE
    /\ by_pc = "start"
    /\ n_records \in 0..MaxRecords
    /\ page_cap \in 1..MaxLimit
    /\ kwargs \in LookupArgs
    /\ table = FirstRecords(n_records)
    /\ limit = 0
    /\ op_pc = "running"
    /\ del_pc = "none"
    /\ ids = <<>>
    /\ d_args = NoArgs
    /\ api_token = TRUE
    /\ fields = <<>>
    /\ result = <<>>
    /\ MakeRequestIdle
    /\ GenIdle
    /\ BubbleIdle
    /\ FullIdle
    /\ ThreadsIdle
    /\ ConIdle
    /\ LoopIdle
    /\ max_failures = MaxPageFailures

NextLookup ==
    \/ GetById
    \/ GetByIdReturn
    \/ GetByIdRaise
    \/ GetByIdFirst
    \/ IsliceNext
    \/ GenReceive
    \/ GenRaise
    \/ GenYield
    \/ GenAdvance
    \/ MakeRequestSend
    \/ MakeRequestClassify
    \/ MakeRequestSleepRetry

SpecLookup == InitLookup /\ [][NextLookup]_vars

----------------------------------------------------------------------------
(* One call of get, of BubbleClient (sync or async) or of BubbleWrapper *)

\* bubble_id is None (0) or an id; only BubbleClient.get takes a column_name
InitGet ==
    /\ op = "get"
    /\ variant \in {"client", "wrapper", "async"}
    /\ bubble_id \in 0..MaxIds
    /\ column_name \in IF variant = "wrapper" \/ bubble_id = None THEN {FALSE} ELSE BOOLEAN
    /\ fail_if_not_found = FALSE
    /\ by_pc = "get"
    /\ n_records \in 0..MaxIds
    /\ page_cap = MaxLimit
    /\ kwargs \in LookupArgs \cup {DefaultArgs}
    /\ table = FirstRecords(n_records)
    /\ limit = 0
    /\ op_pc = "running"
    /\ del_pc = "none"
    /\ ids = <<>>
    /\ d_args = NoArgs
    /\ api_token = TRUE
    /\ fields = <<>>
    /\ result = <<>>
    /\ MakeRequestIdle
    /\ GenIdle
    /\ BubbleIdle
    /\ FullIdle
    /\ ThreadsIdle
    /\ ConIdle
    /\ LoopIdle
    /\ max_failures = MaxPageFailures

NextGet ==
    \/ Get
    \/ NextLookup

SpecGet == InitGet /\ [][NextGet]_vars

----------------------------------------------------------------------------
(* Operations made of several make_request calls, more than one of which fails *)

\* get_objects over two pages of one record, or delete of a list of two ids:
\* each operation makes at least two make_request calls, and the transport
\* may fail a request in more than one of them
InitBudget ==
    /\ column_name = FALSE
    /\ fail_if_not_found = FALSE
    /\ bubble_id = 0
    /\ by_pc = "none"
    /\ ConIdle
    /\ LoopIdle
    /\ max_failures = MaxPageFailures + 1
    /\ op \in {"get_objects", "delete"}
    /\ d_args \in IF op = "delete"
                  THEN {[bubble_id |-> [kind |-> "list", ids |-> q], constraints |-> "None"] :
                           q \in {<<1, 2>>, <<2, 1>>}}
                  ELSE {NoArgs}
    /\ n_records = 2
    /\ page_cap = 1
    /\ limit = 1
    /\ kwargs \in RetryArgs
    /\ table = FirstRecords(n_records)
    /\ op_pc = "running"
    /\ del_pc = IF op = "delete" THEN "dispatch" ELSE "none"
    /\ ids = <<>>
    /\ variant = "client"
    /\ api_token = TRUE
    /\ fields = <<>>
    /\ result = <<>>
    /\ MakeRequestIdle
    /\ params_cursor = 0
    /\ max_objects = <<>>
    /\ gen_pc = IF op = "get_objects" THEN "start" ELSE "none"
    /\ json_resp = NoJson
    /\ buffer = <<>>
    /\ out = <<>>
    /\ BubbleIdle
    /\ FullIdle
    /\ ThreadsIdle

NextBudget ==
    \/ IsliceNext
    \/ GenReceive
    \/ GenRaise
    \/ GenYield
    \/ GenAdvance
    \/ Delete
    \/ DeleteByIdsNext
    \/ DeleteById
    \/ DeleteReturned
    \/ DeleteRaised
    \/ MakeRequestSend
    \/ MakeRequestClassify
    \/ MakeRequestSleepRetry

SpecBudget == InitBudget /\ [][NextBudget]_vars

----------------------------------------------------------------------------
(* One operation of Bubble made of a single retry loop *)

\* the retry arguments n_retries, base_wait_time and exponential_backoff: no
\* wait or the longest one, with and without backoff
BubbleArgs ==
    [nb_retries : 0..MaxRetries, sleep_time : {0, MaxSleep},
     exponential_backoff : BOOLEAN]

InitBubble ==
    /\ op \in BubbleOps
    /\ kwargs \in BubbleArgs
    /\ bubble_id \in IF op = "create_object" THEN {0}
                     ELSE IF op = "Bubble.make_request" THEN {0, 1}
                     ELSE {1}
    /\ fail_if_not_found \in IF op = "get_object_by_id" THEN BOOLEAN ELSE {FALSE}
    /\ column_name \in IF op = "get_object_by_id" THEN BOOLEAN ELSE {FALSE}
    /\ by_pc = "start"
    /\ n_records = 1
    /\ page_cap = 1
    /\ limit = 1
    /\ table = FirstRecords(n_records)
    /\ op_pc = "running"
    /\ del_pc = "none"
    /\ ids = <<>>
    /\ d_args = NoArgs
    /\ variant = "client"
    /\ api_token = TRUE
    /\ fields = <<>>
    /\ result = <<>>
    /\ MakeRequestIdle
    /\ GenIdle
    /\ BubbleIdle
    /\ FullIdle
    /\ ThreadsIdle
    /\ ConIdle
    /\ LoopIdle
    /\ max_failures = MaxPageFailures

NextBubble ==
    \/ BubbleCall
    \/ BubbleTry
    \/ BubbleHandle
    \/ BubbleFinally
    \/ BubbleExhausted
    \/ BubbleCallReturn
    \/ BubbleCallRaise

SpecBubble == InitBubble /\ [][NextBubble]_vars

----------------------------------------------------------------------------
(* A Constraint built from its arguments, then to_dict *)

\* everything outside the Constraint is idle
RestIdle ==
    /\ n_records = 0
    /\ page_cap = 1
    /\ table = <<>>
    /\ kwargs = DefaultArgs
    /\ limit = 0
    /\ op_pc = "running"
    /\ del_pc = "none"
    /\ ids = <<>>
    /\ d_args = NoArgs
    /\ variant = "client"
    /\ api_token = TRUE
    /\ fields = <<>>
    /\ result = <<>>
    /\ column_name = FALSE
    /\ fail_if_not_found = FALSE
    /\ bubble_id = 0
    /\ by_pc = "none"
    /\ max_failures = MaxPageFailures
    /\ MakeRequestIdle
    /\ GenIdle
    /\ BubbleIdle
    /\ FullIdle
    /\ ThreadsIdle

InitConstraint ==
    /\ op = "to_dict"
    /\ c_args \in [key : {"key", "rating"}, constraint_type : ConstraintTypes,
                    value : PyValues]
    /\ c_self = <<>>
    /\ res = <<>>
    /\ f_call = NoField
    /\ f_self = <<>>
    /\ LoopIdle
    /\ RestIdle

NextConstraint ==
    \/ ConstraintInit
    \/ ToDict

SpecConstraint == InitConstraint /\ [][NextConstraint]_vars

\* Field(name).method(value), Field(name).method(), Field(name) <operator>
\* value or value <operator> Field(name), followed by to_dict() of the result
InitField ==
    /\ op = "field"
    /\ f_call \in [name : FieldNames, expr : FieldValueMethods, reversed : {FALSE},
                    value : PyValues]
               \cup [name : FieldNames, expr : FieldUnaryMethods, reversed : {FALSE},
                     value : {PyNone}]
               \cup [name : FieldNames, expr : FieldOperators, reversed : BOOLEAN,
                     value : PyValues]
    /\ f_self = <<>>
    /\ c_args = NoConstraint
    /\ c_self = <<>>
    /\ res = <<>>
    /\ LoopIdle
    /\ RestIdle

NextField ==
    \/ FieldInit
    \/ FieldCall
    \/ ToDict

SpecField == InitField /\ [][NextField]_vars

----------------------------------------------------------------------------
(* asyncio.gather of operations of the async BubbleClient *)

InitGather ==
    /\ op = "gather"
    /\ \E k \in 1..MaxTasks :
          tasks \in [1..k -> {NewTask(o, n) : o \in AsyncOps, n \in 0..MaxRetries}]
    /\ running = 0
    /\ ConIdle
    /\ RestIdle

NextGather ==
    \/ LoopRun
    \/ AsyncMakeRequest

SpecGather == InitGather /\ [][NextGather]_vars

----------------------------------------------------------------------------
(* Properties of one make_request call *)

Finished == mr_pc \in {"returned", "raised"}

\* positions of the HTTP requests in the trace
ReqIdx == {i \in 1..Len(trace) : trace[i].ev = "request"}

\* every HTTP request so far was answered, and answered with a 5xx
AllRequests5xx ==
    \A i \in ReqIdx : trace[i].outcome = "response" /\ trace[i].status \div 100 = 5

RECURSIVE Pow2(_)
Pow2(k) == IF k = 0 THEN 1 ELSE 2 * Pow2(k - 1)

RECURSIVE SumSleeps(_)
SumSleeps(s) ==
    IF s = <<>> THEN 0
    ELSE (IF Head(s).ev = "sleep" THEN Head(s).t ELSE 0) + SumSleeps(Tail(s))

\* C1: when every response is a 5xx, a call with nb_retries = N never returns a
\* value, never issues more than N+1 requests, keeps going until it has issued
\* N+1 of them, and after the (N+1)-th raises the HTTPError of that response.
C1_RetryCountOn5xx ==
    AllRequests5xx =>
        /\ mr_pc # "returned"
        /\ NumRequests <= call.nb_retries + 1
        /\ (NumRequests < call.nb_retries + 1 => mr_pc \in {"request", "classify", "sleep"})
        /\ (NumRequests = call.nb_retries + 1 => mr_pc \in {"classify", "raised"})
        /\ (mr_pc = "raised" =>
               /\ NumRequests = call.nb_retries + 1
               /\ error = "HTTPError"
               /\ response.status = trace[Len(trace)].status)
        /\ (~Finished => ENABLED NextRetry)

\* the test's case: nb_retries = 3, always 500, 4 requests, HTTPError
C1_Witness ==
    /\ mr_pc = "raised"
    /\ error = "HTTPError"
    /\ AllRequests5xx
    /\ call.nb_retries = 3
    /\ NumRequests = 4

\* C2 (as claimed): whatever the status codes, at most N+1 requests are issued
C2_AtMostNPlusOneRequests == NumRequests <= call.nb_retries + 1

\* C3: a 4xx response is the last event of the call (no sleep and no request
\* follows it) and the call ends raising HTTPError, at any attempt.
C3_4xxShortCircuits ==
    \A i \in ReqIdx :
        (trace[i].outcome = "response" /\ trace[i].status \div 100 = 4) =>
            /\ i = Len(trace)
            /\ mr_pc \in {"classify", "raised"}
            /\ (mr_pc = "raised" => error = "HTTPError" /\ response.status = trace[i].status)

\* a 404 on the first call with 3 retries allowed: one request, no sleep
C3_Witness ==
    /\ mr_pc = "raised"
    /\ call.nb_retries = 3
    /\ Len(trace) = 1
    /\ trace[1].status = 404

\* C4: a 2xx response is the last event of the call (no sleep and no request
\* follows it) and the call returns that response, whatever its body.
C4_2xxReturnsImmediately ==
    \A i \in ReqIdx :
        (trace[i].outcome = "response" /\ trace[i].status \div 100 = 2) =>
            /\ i = Len(trace)
            /\ mr_pc \in {"classify", "returned"}
            /\ (mr_pc = "returned" => error = "none" /\ response.status = trace[i].status)

\* the test's case [500, 200], here with a body reporting a partial failure
C4_Witness ==
    /\ mr_pc = "returned"
    /\ response.body = "partial_failure"
    /\ Len(trace) = 3
    /\ trace[1].status = 500
    /\ trace[2].ev = "sleep"
    /\ trace[3].status = 200
    /\ NumRequests = 2

\* C5: when every attempt fails with a 5xx, requests and sleeps alternate
\* starting with a request, the k-th sleep (k = 0, 1, ...) lasts s (constant
\* backoff) or s * 2^k (exponential backoff), and when the error is raised
\* exactly N sleeps have been performed, none of them after the last request.
C5_BackoffSchedule ==
    AllRequests5xx =>
        /\ \A i \in 1..Len(trace) :
              IF i % 2 = 1
              THEN trace[i].ev = "request"
              ELSE /\ trace[i].ev = "sleep"
                   /\ trace[i].t = IF call.exponential_backoff
                                   THEN call.sleep_time * Pow2(i \div 2 - 1)
                                   ELSE call.sleep_time
        /\ (mr_pc = "raised" =>
               /\ NumSleeps = call.nb_retries
               /\ trace[Len(trace)].ev = "request"
               /\ SumSleeps(trace) = IF call.exponential_backoff
                                     THEN call.sleep_time * (Pow2(call.nb_retries) - 1)
                                     ELSE call.sleep_time * call.nb_retries)

\* exponential backoff, s = 1, N = 3: the sleeps are 1, 2, 4
C5_Witness ==
    /\ mr_pc = "raised"
    /\ AllRequests5xx
    /\ call.exponential_backoff
    /\ call.sleep_time = 1
    /\ call.nb_retries = 3
    /\ Len(trace) = 7
    /\ trace[2].t = 1 /\ trace[4].t = 2 /\ trace[6].t = 4

\* C6 (as claimed): a network-level failure is surfaced only once the retry
\* bound is exhausted
C6_NetFailureRetried ==
    (mr_pc = "raised" /\ error \in NetErrors) => nb_retries = 0

----------------------------------------------------------------------------
(* Properties of pagination *)

\* the HTTP requests of the operation, in order
Reqs == SelectSeq(trace, LAMBDA e : e.ev = "request")

\* the request handed a page to the pagination loop: a 2xx for
\* BubbleClient.make_request; for Bubble.make_request any response with resp.ok
\* whose body is a JSON object
PageDelivered(e) ==
    /\ e.outcome = "response"
    /\ IF op = "make_full_request"
       THEN e.status < 400 /\ e.body \in {"keyed", "unkeyed"}
       ELSE e.status \div 100 = 2

\* the records of the page a request received (the backend numbers the
\* records of the result set 1, 2, ... in query order)
PageRecords(e) == IF PageDelivered(e) THEN [i \in 1..e.count |-> e.cursor + i] ELSE <<>>

\* the results of the pages received, concatenated in fetch order
RECURSIVE PagesConcat(_)
PagesConcat(rs) ==
    IF rs = <<>> THEN <<>> ELSE PageRecords(Head(rs)) \o PagesConcat(Tail(rs))

Ceil(a, b) == (a + b - 1) \div b
Prefix(q, k) == SubSeq(q, 1, Min(k, Len(q)))

\* C7: the first page request has cursor 0; the request after a delivered page
\* has that page's cursor plus its count, and is made only if the page's
\* remaining is not 0; a request repeated by the retry policy keeps its cursor.
C7_CursorSequence ==
    /\ (Reqs # <<>> => Reqs[1].cursor = 0)
    /\ \A k \in 1..(Len(Reqs) - 1) :
          IF PageDelivered(Reqs[k])
          THEN /\ Reqs[k + 1].cursor = Reqs[k].cursor + Reqs[k].count
               /\ Reqs[k].remaining # 0
          ELSE Reqs[k + 1].cursor = Reqs[k].cursor

\* pages of sizes [2, 2, 1] (5 records, limit 2): 3 requests, cursors [0, 2, 4]
C7_Witness ==
    /\ op = "get_objects"
    /\ op_pc = "returned"
    /\ n_records = 5
    /\ Len(Reqs) = 3
    /\ Reqs[1].cursor = 0 /\ Reqs[2].cursor = 2 /\ Reqs[3].cursor = 4
    /\ Reqs[1].count = 2 /\ Reqs[2].count = 2 /\ Reqs[3].count = 1
    /\ Reqs[1].remaining = 3 /\ Reqs[2].remaining = 1 /\ Reqs[3].remaining = 0

\* C8: the records produced are the results of the fetched pages, concatenated
\* in fetch order: what the generator has yielded plus what is left of the
\* current page is that concatenation, get_objects returns it (cut to
\* max_objects), and full_results of make_full_request is it after every page.
C8_RecordsAreConcatenatedPages ==
    /\ (op = "get_objects" /\ gen_pc \in {"running", "suspended", "done"}) =>
           out \o buffer = PagesConcat(Reqs)
    /\ (op = "get_objects" /\ op_pc = "returned") =>
           out = IF max_objects = <<>> THEN PagesConcat(Reqs)
                 ELSE Prefix(PagesConcat(Reqs), max_objects[1])
    /\ (op = "make_full_request" /\ b_pc = "idle") => full_results = PagesConcat(Reqs)

\* make_full_request over 5 records with limit 2 returns them all, in order
C8_Witness ==
    /\ op = "make_full_request"
    /\ op_pc = "returned"
    /\ Len(Reqs) = 3
    /\ full_results = <<1, 2, 3, 4, 5>>

\* C9: against a backend of n records that serves full pages (limit within the
\* backend's page size) and never fails, a full read makes at most
\* max(1, ceil(n/limit)) page requests, can always take a step until it has
\* returned, returns after exactly that many requests, and never raises; and
\* the cursor never decreases from one request to the next, in every run.
C9_TerminatesAfterCeilPages ==
    /\ \A k \in 1..(Len(Reqs) - 1) : Reqs[k].cursor <= Reqs[k + 1].cursor
    /\ (limit <= page_cap /\ max_objects = <<>> /\ NumFailures = 0) =>
          /\ NumRequests <= Max(1, Ceil(n_records, limit))
          /\ op_pc # "raised"
          /\ (op_pc = "running" => ENABLED NextPage)
          /\ (op_pc = "returned" => NumRequests = Max(1, Ceil(n_records, limit)))

\* n = 4, limit = 2: exactly 2 requests (the second page reports remaining = 0)
C9_Witness ==
    /\ op_pc = "returned"
    /\ limit = 2 /\ page_cap >= 2
    /\ n_records = 4
    /\ max_objects = <<>>
    /\ NumFailures = 0
    /\ NumRequests = 2

\* C10: get_objects(max_objects = N) over a backend that serves full pages
\* calls make_request at most ceil(N/limit) times (not at all for N = 0), each
\* time only when the consumer needs a record and every record fetched so far
\* has been delivered, and returns exactly the first min(N, total) records.
C10_TruncationFetchesNoFurtherPage ==
    (op = "get_objects" /\ max_objects # <<>> /\ limit <= page_cap) =>
        /\ mr_calls <= Ceil(max_objects[1], limit)
        /\ (max_objects[1] = 0 => NumRequests = 0)
        /\ (mr_pc = "request" => NeedsMore /\ buffer = <<>> /\ out = PagesConcat(Reqs))
        /\ (op_pc = "returned" => out = FirstRecords(Min(max_objects[1], n_records)))

\* max_objects = 2 = limit over 5 records: one page request, although that
\* page reports remaining = 3
C10_Witness ==
    /\ op = "get_objects"
    /\ op_pc = "returned"
    /\ max_objects = <<2>>
    /\ limit = 2
    /\ n_records = 5
    /\ json_resp.remaining = 3
    /\ NumRequests = 1
    /\ out = <<1, 2>>

----------------------------------------------------------------------------
(* Properties of the delete operations *)

\* positions of the DELETE requests in the trace
DeleteIdx == {i \in ReqIdx : trace[i].method = "DELETE"}
\* the ids a DELETE request has been sent for
DeleteRequested == {trace[i].id : i \in DeleteIdx}
\* the ids the generator has fetched so far (yielded, or still in its page)
Fetched == Range(out \o buffer)

\* the first position of x in the sequence q
PosIn(q, x) == CHOOSE i \in 1..Len(q) : q[i] = x /\ \A j \in 1..(i - 1) : q[j] # x

\* C11 (as claimed): when delete_objects (called by delete with constraints, or
\* by delete_all) returns, no record that matched remains in the backend
C11_NoMatchingRecordRemains ==
    (op = "delete_objects" /\ op_pc = "returned") => table = <<>>

\* C12: delete_objects never asks for a page while an id it has fetched is
\* still without its DELETE request: during every make_request for a page, the
\* page before is used up and every id yielded so far has had a DELETE request;
\* so the ids fetched and not yet sent for deletion are at most one page;
\* and the DELETE requests are sent in the order the ids were yielded.
C12_DeleteStreams ==
    op = "delete_objects" =>
        /\ (gen_pc = "fetch" => buffer = <<>> /\ Range(out) \subseteq DeleteRequested)
        /\ Cardinality(Fetched \ DeleteRequested) <= Min(limit, page_cap)
        /\ DeleteRequested \subseteq Range(out)
        /\ \A i \in DeleteIdx : \A j \in DeleteIdx :
              i < j => PosIn(out, trace[i].id) <= PosIn(out, trace[j].id)

\* three records, pages of one: page, DELETE, page, DELETE
C12_Witness ==
    /\ op = "delete_objects"
    /\ op_pc = "returned"
    /\ n_records = 3
    /\ Len(trace) = 4
    /\ trace[1].method = "GET" /\ trace[2].method = "DELETE"
    /\ trace[3].method = "GET" /\ trace[4].method = "DELETE"
    /\ trace[3].cursor = 1

\* the last request of the c-th make_request call of the operation
LastOfCall(c) ==
    LET is == {i \in ReqIdx : trace[i].call_no = c}
    IN  trace[CHOOSE i \in is : \A j \in is : j <= i]

\* C13: delete_by_ids sends DELETE requests only, the c-th delete_by_id call
\* for ids[c], the calls in the order of ids; a call is made only after every
\* call before it ended with a 2xx; when a call fails the operation raises
\* that error with nothing sent for the later ids, the ids before it deleted
\* and every other record still there; when it returns every id is deleted.
C13_DeleteByIdsSequentialAbort ==
    op = "delete_by_ids" =>
        /\ mr_calls <= Len(ids)
        /\ \A i \in ReqIdx :
              /\ trace[i].method = "DELETE"
              /\ trace[i].call_no \in 1..Len(ids)
              /\ trace[i].id = ids[trace[i].call_no]
        /\ \A i \in ReqIdx : \A j \in ReqIdx :
              i < j => trace[i].call_no <= trace[j].call_no
        /\ \A c \in 1..(mr_calls - 1) :
              /\ LastOfCall(c).outcome = "response"
              /\ LastOfCall(c).status \div 100 = 2
              /\ ids[c] \notin Range(table)
        /\ (op_pc = "raised" =>
              /\ mr_calls \in 1..Len(ids)
              /\ error \in NetErrors \cup {"HTTPError"}
              /\ trace[Len(trace)].ev = "request"
              /\ trace[Len(trace)].call_no = mr_calls
              /\ ~(trace[Len(trace)].outcome = "response"
                   /\ trace[Len(trace)].status \div 100 = 2)
              /\ \A x \in 1..n_records :
                    x \notin {ids[c] : c \in 1..mr_calls} => x \in Range(table))
        /\ (op_pc = "returned" =>
              /\ mr_calls = Len(ids)
              /\ \A c \in 1..Len(ids) : ids[c] \notin Range(table))

\* delete_by_ids([1, 2, 3]): 1 is deleted, the delete of 2 fails with a 500,
\* nothing is sent for 3; 1 stays deleted, 2 and 3 remain
C13_Witness ==
    /\ op = "delete_by_ids"
    /\ op_pc = "raised"
    /\ ids = <<1, 2, 3>>
    /\ n_records = 3
    /\ error = "HTTPError"
    /\ trace[Len(trace)].status = 500
    /\ DeleteRequested = {1, 2}
    /\ table = <<2, 3>>

\* the two misuses of delete
BothGiven == d_args.bubble_id.kind # "None" /\ d_args.constraints # "None"
NeitherGiven == d_args.bubble_id.kind = "None" /\ d_args.constraints = "None"

\* C14: delete called with both bubble_id and constraints, or with neither,
\* dispatches to no other operation, sends no request and leaves the backend
\* as it was; its only step raises TypeError (both) or Warning (neither).
C14_UsageErrorsMakeNoRequest ==
    (BothGiven \/ NeitherGiven) =>
        /\ op = "delete"
        /\ trace = <<>>
        /\ mr_calls = 0
        /\ table = FirstRecords(n_records)
        /\ op_pc \in {"running", "raised"}
        /\ (op_pc = "running" => ENABLED Delete)
        /\ (op_pc = "raised" => error = IF BothGiven THEN "TypeError" ELSE "Warning")

\* delete(type, bubble_id = "2", constraints = [...]) on three records
C14_Witness ==
    /\ op = "delete"
    /\ op_pc = "raised"
    /\ error = "TypeError"
    /\ d_args.bubble_id = [kind |-> "str", ids |-> <<2>>]
    /\ d_args.constraints = "list"
    /\ n_records = 3
    /\ table = <<1, 2, 3>>

----------------------------------------------------------------------------
(* Properties of count_objects and create_bulk *)

\* C15 (as claimed): count_objects makes one make_request call, for the page
\* at cursor 0 with limit 1, and returns count + remaining of the response
C15_CountAsksForOneRecord ==
    op = "count_objects" =>
        /\ mr_calls <= 1
        /\ (mr_calls = 1 => params_cursor = 0 /\ limit = 1)
        /\ (op_pc = "returned" => result = <<json_resp.count + json_resp.remaining>>)

\* the backend answered the bulk POST with a 200 whose text is one status
\* line per input record, in input order, and nothing else
OneStatusLinePerRecord ==
    /\ response.status = 200
    /\ response.text = Join([i \in 1..Len(fields) |-> JsonDumps(fields[i])])

\* C16 (as claimed): create_bulk sends one POST whose body is one JSON line
\* per record, and when the answer is one status line per record it returns
\* a list with the status of record i at position i, for every input length
C16_BulkReturnsOneEntryPerRecord ==
    (op = "create_bulk" /\ mr_calls = 1) =>
        /\ NumRequests <= 1 + call.nb_retries
        /\ request.method = "POST"
        /\ Split(request.data) = IF fields = <<>> THEN <<<<>>>>
                                 ELSE [i \in 1..Len(fields) |-> JsonDumps(fields[i])]
        /\ (op_pc # "running" /\ OneStatusLinePerRecord) =>
              /\ op_pc = "returned"
              /\ result = <<fields>>

\* C17 (as claimed): the lines of the response that json.loads accepts are
\* returned to the caller whatever the other lines are
C17_LinesDecodedIndependently ==
    (op = "create_bulk" /\ op_pc # "running" /\ response.status \div 100 = 2) =>
        /\ op_pc = "returned"
        /\ result = <<[i \in 1..Len(SelectSeq(Split(response.text), JsonLoadable)) |->
                         JsonLoads(SelectSeq(Split(response.text), JsonLoadable)[i])]>>

----------------------------------------------------------------------------
(* Properties of make_full_request with worker threads *)

\* the results that the threads of keys 0 .. k-1 got, in the order of the keys
RECURSIVE SlotsConcat(_)
SlotsConcat(k) ==
    IF k = 0 THEN <<>> ELSE SlotsConcat(k - 1) \o threads[k - 1].data.results

\* no request of the operation, by the main thread or by a worker, has failed
NoFailure == NumFailures = 0 /\ SumFailed(DOMAIN threads) = 0

\* C18: the thread of key k fetches the page at cursor k * limit; what is
\* stored under key k is the GetDataResp made from that thread's response;
\* while the main thread collects, and when it returns, full_results is the
\* results of the keys collected so far in ascending key order, whatever the
\* order in which the threads ended; with no failed request and full pages it
\* is the whole result set in query order.
C18_ResultsInCursorOrder ==
    n_threads >= 1 =>
        /\ \A k \in DOMAIN threads : threads[k].cursor = k * limit
        /\ \A k \in DOMAIN result_dict :
              /\ k \in DOMAIN threads
              /\ threads[k].resp.status # 0 /\ threads[k].resp.status < 400
              /\ result_dict[k] = ParsedData(threads[k].resp, <<>>)
              /\ result_dict[k] = threads[k].data
              /\ (threads[k].resp.status = 200 /\ threads[k].resp.body = "keyed") =>
                    result_dict[k].results = BackendPage(k * limit, limit).results
        /\ (full_pc = "collect" => full_results = SlotsConcat(Slot(cur_b, cur_t)))
        /\ (full_pc = "batch" => full_results = SlotsConcat(Min(Slot(cur_b, 0), n_total_threads)))
        /\ (op_pc = "returned" =>
              /\ DOMAIN threads = 0..(n_total_threads - 1)
              /\ full_results = SlotsConcat(n_total_threads)
              /\ (NoFailure /\ limit <= page_cap) => full_results = FirstRecords(n_records))

\* 5 records, limit 2, 2 threads: 3 pages in 2 batches, returned in order
C18_Witness ==
    /\ op_pc = "returned"
    /\ n_threads = 2
    /\ limit = 2
    /\ n_records = 5
    /\ DOMAIN threads = {0, 1, 2}
    /\ threads[1].data.results = <<3, 4>>
    /\ full_results = <<1, 2, 3, 4, 5>>

\* C19: never more than n_threads worker threads are alive, and a thread of a
\* batch exists only if every thread of the batches before has ended.
C19_BoundedWorkersAndBarrier ==
    n_threads >= 1 =>
        /\ Cardinality(Alive) <= n_threads
        /\ \A k \in DOMAIN threads : \A j \in 0..(k - 1) :
              /\ j \in DOMAIN threads
              /\ (j \div n_threads < k \div n_threads => threads[j].pc = "finished")
        /\ \A k \in Alive : k \div n_threads = cur_b

\* 2 threads per batch: both threads of the second batch are running
C19_Witness ==
    /\ n_threads = 2
    /\ cur_b = 1
    /\ DOMAIN threads = {0, 1, 2, 3}
    /\ Alive = {2, 3}
    /\ threads[2].pc = "try" /\ threads[3].pc = "try"

\* C20: a key of result_dict, once written, keeps its value; result_dict is
\* written only by the thread of key k storing under k the value its own
\* make_request returned, k being a key of the current batch not yet written;
\* and a step of a worker thread changes its own frame and, at most, that
\* entry of result_dict.
C20_SlotsWrittenOnce ==
    [][/\ \A k \in DOMAIN result_dict :
              k \in DOMAIN result_dict' => result_dict'[k] = result_dict[k]
       /\ (result_dict' # result_dict /\ result_dict' # <<>>) =>
              \E k \in DOMAIN threads :
                  /\ k \notin DOMAIN result_dict
                  /\ k \div n_threads = cur_b
                  /\ threads[k].pc = "returned"
                  /\ threads'[k].pc = "exiting"
                  /\ DOMAIN result_dict' = DOMAIN result_dict \cup {k}
                  /\ result_dict'[k] = threads[k].data
       /\ \A k \in DOMAIN threads :
              threads'[k] # threads[k] =>
                  /\ \A j \in DOMAIN threads \ {k} : threads'[j] = threads[j]
                  /\ \A j \in DOMAIN result_dict' \ {k} :
                        j \in DOMAIN result_dict /\ result_dict'[j] = result_dict[j]
                  /\ UNCHANGED <<full_results, cursor, cur_b, cur_t, full_pc, n_items,
                                 bmrVars, trace, table>>
      ]_vars

\* the thread of key 1 has stored its result, the thread of key 0 is about to
C20_Witness ==
    /\ n_threads = 2
    /\ 1 \in DOMAIN result_dict
    /\ 0 \notin DOMAIN result_dict
    /\ threads[0].pc = "returned"
    /\ threads[1].pc = "finished"

----------------------------------------------------------------------------
(* Properties of get_by_id *)

\* the i-th entry of the trace is a request the backend answered with status st
Answered(i, st) ==
    i \in 1..Len(trace) /\ trace[i].ev = "request" /\ trace[i].status = st

\* the synchronous get_by_id by id
StrictLookup == variant = "client" /\ ~column_name /\ by_pc \in {"request", "done"}

\* C21: in BubbleClient.get_by_id without column_name a 404 is the last thing
\* that happens on the wire (no request and no sleep follows it), it ends the
\* call with an HTTPError, the call never returns None, and when the first
\* answer of the backend is the 404 exactly one request has been made.
C21_StrictLookupRaisesOn404 ==
    StrictLookup =>
        /\ \A i \in 1..Len(trace) : Answered(i, 404) => i = Len(trace)
        /\ result # <<None>>
        /\ (trace # <<>> /\ Answered(Len(trace), 404) /\ mr_pc # "classify") =>
              /\ error = "HTTPError"
              /\ op_pc # "returned"
              /\ result = <<>>
              /\ (by_pc = "done" => op_pc = "raised")
        /\ (by_pc = "done" /\ Answered(1, 404)) => NumRequests = 1 /\ NumSleeps = 0

\* the record looked up does not exist, the caller allows 2 retries: the one
\* request got a 404 and get_by_id has raised
C21_Witness ==
    /\ StrictLookup
    /\ by_pc = "done"
    /\ kwargs.nb_retries = 2
    /\ bubble_id \notin Range(table)
    /\ Len(trace) = 1
    /\ Answered(1, 404)
    /\ op_pc = "raised"
    /\ error = "HTTPError"

\* C22: in Bubble.get_object_by_id a 404 is the last thing on the wire (it is
\* not retried and no sleep follows it, whatever n_retries is), and when the
\* only answer is a 404 the call returns None if fail_if_not_found is False
\* and raises ValueError if it is True.
C22_LenientLookupOn404 ==
    op = "get_object_by_id" =>
        /\ \A i \in 1..Len(trace) : Answered(i, 404) => i = Len(trace)
        /\ (by_pc = "done" /\ trace # <<>> /\ Answered(Len(trace), 404)) =>
              IF fail_if_not_found
              THEN op_pc = "raised" /\ error = "ValueError" /\ result = <<>>
              ELSE op_pc = "returned" /\ result = <<None>>
        /\ (by_pc = "done" /\ Answered(1, 404)) => NumRequests = 1 /\ NumSleeps = 0

\* n_retries = 3, one request answered 404, None returned
C22_Witness ==
    /\ op = "get_object_by_id"
    /\ by_pc = "done"
    /\ n_retries = 3
    /\ ~fail_if_not_found
    /\ Len(trace) = 1
    /\ Answered(1, 404)
    /\ op_pc = "returned"
    /\ result = <<None>>

\* C23 (as claimed): get_by_id with a column_name, synchronous or
\* asynchronous, never returns None, and ends with an error when the query
\* by column matched no record.
C23_EmptyColumnLookupFails ==
    (column_name /\ by_pc = "done") =>
        /\ result # <<None>>
        /\ (n_records = 0 => op_pc = "raised")

----------------------------------------------------------------------------
\* C24: every request of BubbleClient carries the Authorization header if and
\* only if an api_token is configured, and an operation of a client without
\* api_token still sends its request.
C24_AuthorizationIffToken ==
    /\ \A i \in 1..Len(trace) :
           trace[i].ev = "request"
               => (("Authorization" \in trace[i].headers) <=> api_token)
    /\ (~api_token /\ op_pc # "running") => NumRequests >= 1

----------------------------------------------------------------------------
(* The retry loop of Bubble.make_request, update_object and create_object *)

LoopOps == {"Bubble.make_request", "update_object", "create_object"}

\* an attempt that ended in a 5xx response, a ConnectionError or a ReadTimeout
Transient(e) ==
    /\ e.ev = "request"
    /\ \/ e.outcome \in {"ConnectionError", "ReadTimeout"}
       \/ e.outcome = "response" /\ e.status \div 100 = 5

AllTransient == \A i \in ReqIdx : Transient(trace[i])

\* the operation has ended (returned or raised) after at least one attempt
LoopEnded == op \in LoopOps /\ by_pc = "done" /\ NumRequests >= 1

\* C25: when every attempt of a call with n_retries = N ends in a 5xx response
\* or in a ConnectionError / ReadTimeout, exactly N + 1 requests are issued and
\* the call ends with a ValueError; never more than N + 1 requests are made.
C25_TransientFailuresExhaustRetries ==
    op \in LoopOps =>
        /\ AllTransient => NumRequests <= kwargs.nb_retries + 1
        /\ (LoopEnded /\ AllTransient) =>
               /\ NumRequests = kwargs.nb_retries + 1
               /\ op_pc = "raised"
               /\ error = "ValueError"
               /\ result = <<>>

C25_Witness ==
    /\ op = "update_object"
    /\ kwargs.nb_retries = 2
    /\ LoopEnded
    /\ AllTransient
    /\ NumRequests = 3
    /\ \E i, j \in ReqIdx : trace[i].status = 500 /\ trace[j].outcome = "ReadTimeout"
    /\ op_pc = "raised"
    /\ error = "ValueError"

\* C26: a 4xx response ends the retry loop: it is the last event of the call,
\* no request and no sleep follows it.
C26_ClientErrorEndsLoop ==
    op \in LoopOps =>
        \A i \in 1..Len(trace) :
            (trace[i].ev = "request" /\ trace[i].status \div 100 = 4) => i = Len(trace)

\* the wait the policy prescribes after the failed attempt of index k
PolicyWait(k) ==
    IF kwargs.exponential_backoff
    THEN (IF k = 0 THEN 0 ELSE Pow(kwargs.sleep_time, k))
    ELSE kwargs.sleep_time

\* C27: when all attempts fail transiently, the attempt of index k < n_retries
\* is followed by one wait, of 0 (k = 0) or base_wait_time^k with
\* exponential_backoff and of base_wait_time without, and the attempt of index
\* n_retries is followed by none.
C27_BackoffPolicy ==
    (op \in LoopOps /\ AllTransient) =>
        /\ Len(trace) <= 2 * kwargs.nb_retries + 1
        /\ \A i \in 1..Len(trace) :
               IF i % 2 = 1
               THEN trace[i].ev = "request"
               ELSE /\ trace[i].ev = "sleep"
                    /\ trace[i].t = PolicyWait(i \div 2 - 1)
        /\ LoopEnded => Len(trace) = 2 * kwargs.nb_retries + 1

C27_Witness ==
    /\ op = "Bubble.make_request"
    /\ kwargs.exponential_backoff
    /\ kwargs.nb_retries = 3
    /\ LoopEnded
    /\ AllTransient
    /\ Len(trace) = 7
    /\ trace[2].t = 0
    /\ trace[4].t = kwargs.sleep_time
    /\ trace[6].t = kwargs.sleep_time * kwargs.sleep_time
    /\ trace[6].t > trace[4].t

\* the final attempt of the call
LastAttempt == trace[CHOOSE i \in ReqIdx : \A j \in ReqIdx : j <= i]

\* C28: the error raised when the retries are exhausted describes the final
\* attempt: the last response if that attempt got one, the transport error if
\* it got none.
C28_ErrorDescribesFinalAttempt ==
    (op \in LoopOps /\ detail # "none") =>
        detail = IF LastAttempt.outcome = "response" THEN "last_response"
                 ELSE LastAttempt.outcome

----------------------------------------------------------------------------
\* C29: the operations scheduled on the event loop issue their requests (no
\* operation ends without having issued one), and an operation that waits to
\* retry does not hold the event loop.
C29_RetryWaitIsNonBlocking ==
    \A t \in 1..Len(tasks) :
        /\ tasks[t].pc = "done" => tasks[t].requests >= 1
        /\ tasks[t].pc = "sleep" => running # t

\* C30: to_dict has key and constraint_type, and has value exactly if the
\* constraint was built with a value other than None; value is never None.
C30_ValueIffGiven ==
    res # <<>> =>
        /\ {"key", "constraint_type"} \subseteq DOMAIN res[1]
        /\ res[1].key = c_args.key
        /\ res[1].constraint_type = c_args.constraint_type
        /\ ("value" \in DOMAIN res[1]) <=> (c_args.value # PyNone)

----------------------------------------------------------------------------
\* a 2xx response received at position i of the trace
Success(i) ==
    trace[i].ev = "request" /\ trace[i].outcome = "response" /\ trace[i].status \div 100 = 2

\* C32: update_object and create_object return as soon as a 2xx response is
\* received: no retry sleep is performed after it.
C32_ReturnWithoutSleep ==
    op \in {"update_object", "create_object"} =>
        \A i \in 1..Len(trace) :
            Success(i) => \A j \in (i + 1)..Len(trace) : trace[j].ev # "sleep"

\* C33: in make_request and create_object no further request is issued once
\* a 2xx response has been received, whatever the shape of its body.
C33_NoRequestAfterSuccess ==
    op \in {"Bubble.make_request", "create_object"} =>
        \A i \in 1..Len(trace) :
            Success(i) => \A j \in (i + 1)..Len(trace) : trace[j].ev # "request"

----------------------------------------------------------------------------
\* what make_full_request returns with n_threads = 0 when no request fails:
\* the while loop from cursor c with the results acc gathered so far
RECURSIVE SequentialResults(_, _)
SequentialResults(c, acc) ==
    LET page == BackendPage(c, limit)
    IN  IF page.remaining > 0 /\ page.count > 0
        THEN SequentialResults(c + page.count, acc \o page.results)
        ELSE acc \o page.results

\* C34: with no failed request and full pages, the threaded make_full_request
\* returns the list the sequential one returns, and its worker threads are
\* those of the cursors k * limit, 0 <= k < ceil(n / limit), each having made
\* one request.
C34_ThreadedEqualsSequential ==
    (n_threads >= 1 /\ NoFailure /\ limit <= page_cap) =>
        /\ DOMAIN threads \subseteq 0..(Ceil(n_records, limit) - 1)
        /\ \A k \in DOMAIN threads :
              /\ threads[k].cursor = k * limit
              /\ threads[k].retry_index <= 1
              /\ threads[k].pc = "finished" => threads[k].retry_index = 1
        /\ op_pc # "raised"
        /\ op_pc = "returned" =>
              /\ full_results = SequentialResults(0, <<>>)
              /\ DOMAIN threads = 0..(Ceil(n_records, limit) - 1)

\* 4 records, limit 2 (an exact multiple), 2 threads
C34_Witness ==
    /\ n_threads = 2
    /\ limit = 2
    /\ page_cap >= 2
    /\ n_records = 4
    /\ NoFailure
    /\ op_pc = "returned"
    /\ DOMAIN threads = {0, 1}
    /\ full_results = <<1, 2, 3, 4>>

\* the page fetch of the worker of key k failed: its make_request raised
FailedWorker(k) ==
    \/ threads[k].pc = "raised"
    \/ threads[k].pc = "finished" /\ threads[k].resp = NoResponse

\* C35: once the page fetch of a worker has failed, the call never returns a
\* result list and starts no worker of a later batch; it raises ValueError,
\* and only when every worker of the batch has ended.
C35_WorkerFailureFailsCall ==
    n_threads >= 1 =>
        \A k \in DOMAIN threads :
            FailedWorker(k) =>
                /\ op_pc # "returned"
                /\ full_pc \in {"spawn", "collect", "done"}
                /\ cur_b = k \div n_threads
                /\ \A j \in DOMAIN threads : j \div n_threads <= k \div n_threads
                /\ full_pc = "done" =>
                      /\ op_pc = "raised"
                      /\ error = "ValueError"
                      /\ result = <<>>
                      /\ \A j \in DOMAIN threads : threads[j].pc = "finished"

\* 3 pages, 2 threads: the worker of key 1 failed after the page of key 0 was
\* fetched; the call raised and the third page was never requested
C35_Witness ==
    /\ n_threads = 2
    /\ limit = 1
    /\ n_items = 3
    /\ DOMAIN threads = {0, 1}
    /\ FailedWorker(1)
    /\ ~FailedWorker(0)
    /\ full_results = <<1>>
    /\ op_pc = "raised"
    /\ error = "ValueError"

----------------------------------------------------------------------------
\* C36: get_object_by_id with a column_id other than "_id" issues a list
\* query (cursor 0, limit 1, no id in the URL) and with "_id" a fetch by id.
C36_DispatchOnColumnId ==
    (op = "get_object_by_id" /\ by_pc # "start") =>
        IF ColumnId = "_id"
        THEN b_args.unique_id = <<bubble_id>>
        ELSE b_args.unique_id = <<>> /\ b_args.cursor = 0 /\ b_args.limit = 1

----------------------------------------------------------------------------
\* C37: get_by_id with a column_name requests one page only: every request
\* of the call is for cursor 0 (the first page or a retry of it).
C37_ColumnLookupFetchesOnePage ==
    (variant = "client" /\ column_name /\ by_pc \in {"objects", "done"}) =>
        \A i \in 1..Len(trace) : trace[i].ev = "request" => trace[i].cursor = 0

----------------------------------------------------------------------------
\* C38: get goes to get_by_id when a bubble_id is given and to get_objects
\* when none is given; get_by_id is never entered with an absent id.
C38_GetDispatch ==
    (by_pc \notin {"none", "get"} /\ variant \in {"client", "wrapper", "async"}
       /\ (op = "get_by_id" \/ by_pc \in {"list", "objects", "done"})) =>
        IF bubble_id # None THEN by_pc # "list" ELSE by_pc = "list"

----------------------------------------------------------------------------
\* the requests and the sleeps of the c-th make_request call of the operation
RequestsOf(c) == SelectSeq(trace, LAMBDA e : e.ev = "request" /\ e.call_no = c)
SleepsOf(c) == SelectSeq(trace, LAMBDA e : e.ev = "sleep" /\ e.call_no = c)

\* C39: the retry state is per request: every page request of get_objects_gen
\* and every DELETE of delete_by_ids starts with the full nb_retries budget
\* and the initial sleep_time, whatever the calls before it used up. A call
\* is entered with the caller's arguments, its k-th wait is the initial
\* sleep_time (doubled k - 1 times with backoff), it sends at most
\* nb_retries + 1 requests when every failure is one raise_for_status
\* raises for, and exactly that many when it gives up on a status that is
\* retried (one outside 4xx).
C39_RetryStatePerRequest ==
    /\ mr_pc # "idle" =>
          call = [nb_retries |-> kwargs.nb_retries, sleep_time |-> kwargs.sleep_time,
                  exponential_backoff |-> kwargs.exponential_backoff]
    /\ \A c \in 1..mr_calls :
          /\ (\A i \in 1..Len(RequestsOf(c)) :
                 \/ RequestsOf(c)[i].outcome # "response"
                 \/ RequestsOf(c)[i].status \div 100 = 2
                 \/ RaisesForStatus(RequestsOf(c)[i].status))
                => Len(RequestsOf(c)) <= kwargs.nb_retries + 1
          /\ \A k \in 1..Len(SleepsOf(c)) :
                SleepsOf(c)[k].t = kwargs.sleep_time
                                     * (IF kwargs.exponential_backoff THEN Pow2(k - 1) ELSE 1)
    /\ (mr_pc = "raised" /\ error = "HTTPError" /\ response.status \div 100 # 4) =>
          Len(RequestsOf(mr_calls)) = kwargs.nb_retries + 1

\* get_objects with one retry and backoff: the first page failed once and
\* was fetched at the second attempt; the second page failed once too, and
\* its call waited the initial sleep_time again and had its own retry
C39_Witness ==
    /\ kwargs.nb_retries = 1
    /\ kwargs.exponential_backoff
    /\ mr_calls >= 2
    /\ Len(SleepsOf(1)) = 1
    /\ Len(SleepsOf(2)) = 1
    /\ SleepsOf(2)[1].t = kwargs.sleep_time
    /\ Len(RequestsOf(2)) = 2
    /\ RequestsOf(2)[2].status = 200
    /\ out # <<>>

----------------------------------------------------------------------------
\* the constraint_type asserted for the expression e on a Field
AssertedType(e) ==
    CASE e.expr \in {"==", "equals"} -> "equals"
      [] e.expr \in {"!=", "not_equals"} -> "not equals"
      [] e.expr = "is_empty" -> "is_empty"
      [] e.expr = "is_not_empty" -> "is_not_empty"
      [] e.expr = "text_contains" -> "text contains"
      [] e.expr = "not_text_contains" -> "not text contains"
      [] e.expr = "greater_than" \/ (e.expr = ">" /\ ~e.reversed)
           \/ (e.expr = "<" /\ e.reversed) -> "greater than"
      [] e.expr = "less_than" \/ (e.expr = "<" /\ ~e.reversed)
           \/ (e.expr = ">" /\ e.reversed) -> "less than"
      [] e.expr = "is_in" -> "in"
      [] e.expr = "is_not_in" -> "not in"
      [] e.expr = "contains" -> "contains"
      [] e.expr = "not_contains" -> "not contains"
      [] e.expr = "geographic_search" -> "geographic search"

\* C31: the dict serialized from the constraint a Field operation builds has
\* the constraint_type asserted for the operation ('not equals' for !=,
\* 'geographic search' for geographic_search, ...), and its key is the
\* normalized field name: lower case, without spaces; value < Field gives
\* the constraint of Field > value.
C31_FieldConstraintTypes ==
    (op = "field" /\ res # <<>>) =>
        /\ res[1].constraint_type = AssertedType(f_call)
        /\ res[1].key = format_field_name(f_call.name)
        /\ \A i \in 1..Len(res[1].key) :
              res[1].key[i] # " " /\ Lower(res[1].key[i]) = res[1].key[i]

====
